---- MODULE Spec2Model ----
(***************************************************************************)
(* The Redis work queue of the ImmobilienScout24 scraper (RedisQueue), the *)
(* coordinator that fills it and the workers that drain it.  Every action  *)
(* is one command sent to the Redis store: commands of one client are      *)
(* executed in program order, commands of different clients interleave.    *)
(* A pipeline (ioredis pipeline().exec()) is a batch of commands without   *)
(* MULTI, so its commands are separate steps as well.                      *)
(***************************************************************************)
EXTENDS Integers, Sequences, FiniteSets, TLC

\* ---------------------------------------------------------------- bounds
Ids == {"a", "b"}
Workers == {"w1", "w2"}
Clients == {"c1", "c2"}
Procs == Workers \cup Clients
None == "none"

\* calls one client makes when clients run concurrently
MaxCalls == 2
\* calls the single client makes when it runs alone
MaxSeqCalls == 4
\* commands the operator issues
MaxOps == 1
\* longest id list handed to pushListingIds
MaxBatchLen == 2
\* largest retry limit a client passes to requeueWithRetry
MaxLimit == 3
\* latest reading of the wall clock
MaxClock == 2
\* errors the loop of a worker catches before the model stops counting
MaxStoreErrors == 2

\* ------------------------------------------------------ program constants
maxRetries == 3
maxEmptyChecks == 10
\* GERMAN_CITIES x transactionTypes x propertyTypes
NumCombinations == 4
\* coordinator.ts: pageSize: 20 and scrapeSearch(..., 10000)
CoordinatorPageSize == 20
CoordinatorMaxResults == 10000
batchSize == 1000

VARIABLES
  \* the store, one variable per key of the namespace
  queue,            \* landomo:<portal>:queue        (list, left end first)
  all_ids,          \* landomo:<portal>:all_ids      (set)
  processed,        \* landomo:<portal>:processed    (set)
  failed,           \* landomo:<portal>:failed       (set)
  failedErrors,     \* landomo:<portal>:failed:errors (hash, its fields)
  retries,          \* landomo:<portal>:retries      (hash, 0 = no field)
  \* each process
  pc,               \* the command it sends next
  cur,              \* the id argument of the running operation
  batch,            \* the ids argument of pushListingIds
  i,                \* pushListingIds: offset of the current chunk
  idx,              \* pushListingIds: commands of the pipeline already sent
  newIds,           \* pushListingIds: ids whose sadd returned 1
  addedCount,       \* pushListingIds: addedCount
  failedIds,        \* retryFailedListings: failedIds
  todo,             \* retryFailedListings: failedIds still to move
  ret,              \* boolean result of the last finished operation
  count,            \* numeric result of the last finished operation
  budget,           \* calls a client may still start
  emptyQueueCount,  \* worker: emptyQueueCount
  limit,            \* the retry limit the clients of this run pass
  \* history of the run
  newCount,         \* per id: enqueue calls that reported it as new
  pushCount,        \* per id: pushes onto queue made by enqueue calls
  rqCalls,          \* per id: finished requeueWithRetry calls since the counter's reset
  rqTrue,           \* per id: requeueWithRetry calls that returned true since the reset
  known,            \* per running pushListingIds call: the ids that were in all_ids
                    \* before the call or were inserted by another process during it
  ackCalls,         \* per id: markProcessed calls made by clients
  arrival,          \* the ids waiting in queue, in the order of the pushes that put them there
  \* the stats hash and the wall clock its timestamp is read from
  started_at,       \* landomo:<portal>:stats, field started_at (0 = no field)
  clock,            \* what new Date() returns
  qstats,           \* per process: the QueueStats its last getStats call returned
  sent,             \* the ids whose data a worker has sent to the Core Service
  discovery,        \* discoverAllCities: the combination at hand, totalNewIds,
                    \* and the combinations discoverProperties was invoked for
  reachable,        \* the connection to the store is up
  storeErrors,      \* per worker: errors caught by the loop of start()
  \* the IS24 REST API client
  env,              \* IS24_CONSUMER_KEY, IS24_CONSUMER_SECRET, IS24_ACCESS_TOKEN, IS24_ACCESS_SECRET
  apiClient,        \* the IS24RestApiClient: whether it is constructed, and its signer
  wire,             \* the requests the client has handed to the transport
  signed,           \* the generateAuthHeader calls made so far, each with its result
  \* the counters of a worker
  processedCount,   \* worker: processedCount
  failedCount,      \* worker: failedCount
  scraper,          \* the scrapeSearch call of the coordinator: its arguments and locals,
                    \* the pages requested and the ids seen on the fetched pages
  chunking,         \* pushListingIds: batchSize, and what an examined call found
  encoder           \* the signer's percentEncode and key sort: an input and its result

store == <<queue, all_ids, processed, failed, failedErrors, retries>>
locals == <<pc, cur, batch, i, idx, newIds, addedCount, failedIds, todo, ret, count,
            budget, emptyQueueCount, limit>>
history == <<newCount, pushCount, rqCalls, rqTrue>>
stats == <<started_at, clock>>
\* what the later parts of the model add to the state of a process
signing == <<env, apiClient, wire, signed>>
counters == <<processedCount, failedCount>>
extra == <<qstats, sent, discovery, reachable, storeErrors, signing, counters, scraper, chunking, encoder>>
vars == <<store, locals, history, known, ackCalls, arrival, stats, extra>>

\* ---------------------------------------------------------------- helpers
Min(x, y) == IF x < y THEN x ELSE y

Range(s) == {s[k] : k \in 1..Len(s)}

Occurrences(s, id) == Cardinality({k \in 1..Len(s) : s[k] = id})

\* LPUSH key v: the value becomes the new left end
LPush(q, id) == <<id>> \o q

\* LPUSH key v1 v2 ...: the values are pushed one after another
RECURSIVE LPushAll(_, _)
LPushAll(q, s) == IF s = <<>> THEN q ELSE LPushAll(LPush(q, Head(s)), Tail(s))

\* BRPOP takes the right end
RightEnd(q) == q[Len(q)]
DropRight(q) == SubSeq(q, 1, Len(q) - 1)

\* s without the first occurrence of id
RECURSIVE RemoveFirst(_, _)
RemoveFirst(s, id) ==
  IF s = <<>> THEN <<>>
  ELSE IF Head(s) = id THEN Tail(s)
  ELSE <<Head(s)>> \o RemoveFirst(Tail(s), id)

Batches == UNION {[1..n -> Ids] : n \in 0..MaxBatchLen}

\* where a process goes when its queue operation returns
Home(p) == IF p \in Workers THEN "pop" ELSE "idle"

\* the result a finished operation leaves: a client keeps it until its next
\* call, processProperty uses it at once (if (!requeued) ...) and drops it
Result(p, r) == IF p \in Workers THEN None ELSE r

\* a client starts an operation
CanCall(p) == p \in Clients /\ pc[p] = "idle" /\ budget[p] > 0

Inc(f, id) == [f EXCEPT ![id] = @ + 1]

\* process p inserts id into all_ids: every other running pushListingIds
\* call will find it known
Learn(p, id) ==
  [q \in Procs |-> IF q # p /\ pc[q] \in {"plis_sadd", "plis_lpush"} /\ id \notin all_ids
                     THEN known[q] \cup {id} ELSE known[q]]

\* ------------------------------------------------------------------ Init
InitStore ==
  /\ queue = <<>>
  /\ all_ids = {}
  /\ processed = {}
  /\ failed = {}
  /\ failedErrors = {}
  /\ retries = [id \in Ids |-> 0]

\* JavaScript's undefined, as the value of a numeric field
Undefined == -1

\* no getStats call has returned yet
NoStats ==
  [queueDepth |-> Undefined, totalDiscovered |-> Undefined, processedCount |-> Undefined,
   failedCount |-> Undefined, remaining |-> Undefined, startedAt |-> Undefined]

\* the four credential fields, in the order of the constructor's parameters
CredentialFields == {"consumerKey", "consumerSecret", "accessToken", "accessSecret"}

\* a string is the sequence of its characters; a run of unreserved characters
\* (letters, digits, - _ . ~) that is never split is written as one element.
\* An optional string is a record: undefined has set = FALSE
NoString == [set |-> FALSE, value |-> <<>>]
Str(s) == [set |-> TRUE, value |-> s]

\* private signer: OAuth1Signer | null = null
NoSigner == [present |-> FALSE]

\* no IS24RestApiClient has been constructed yet
NoClient == [constructed |-> FALSE, signer |-> NoSigner, threw |-> FALSE]

InitQueueExtra ==
  /\ qstats = [p \in Procs |-> NoStats]
  /\ sent = {}
  /\ discovery = [phase |-> "scrape", k |-> 0, totalNewIds |-> 0, invoked |-> {}]
  /\ reachable = TRUE
  /\ storeErrors = [p \in Procs |-> 0]

\* no environment variable set, no API client constructed
InitSigning ==
  /\ env = [f \in CredentialFields |-> NoString]
  /\ apiClient = NoClient
  /\ wire = <<>>
  /\ signed = <<>>

\* private processedCount: number = 0; private failedCount: number = 0
InitCounters ==
  /\ processedCount = [p \in Procs |-> 0]
  /\ failedCount = [p \in Procs |-> 0]

\* pushListingIds with its chunks of 1000: the lists of the model are shorter
\* and handled whole.  all0 and queue0 are what an examined call found.
WholeLists == [batchSize |-> batchSize, all0 |-> {}, queue0 |-> <<>>]

\* nothing has been given to the signer's percentEncode or to its key sort
NoInput == [kind |-> "none", done |-> FALSE]

\* no scrapeSearch call has been made; the coordinator's scraper has
\* pageSize 20 and is called with maxResults 10000
NoScrape(maxResults, pageSize) ==
  [phase |-> "idle", maxResults |-> maxResults, pageSize |-> pageSize,
   page |-> 1, hasMore |-> TRUE, properties |-> <<>>,
   requested |-> <<>>, seen |-> {}, threw |-> FALSE, honoured |-> TRUE,
   last |-> [n |-> 0, totalPages |-> 0]]

InitExtra ==
  /\ InitQueueExtra
  /\ InitSigning
  /\ InitCounters
  /\ scraper = NoScrape(CoordinatorMaxResults, CoordinatorPageSize)
  /\ chunking = WholeLists
  /\ encoder = NoInput

\* the local variables of the queue operations
InitProcLocals ==
  /\ cur = [p \in Procs |-> None]
  /\ batch = [p \in Procs |-> <<>>]
  /\ i = [p \in Procs |-> 0]
  /\ idx = [p \in Procs |-> 0]
  /\ newIds = [p \in Procs |-> <<>>]
  /\ addedCount = [p \in Procs |-> 0]
  /\ failedIds = [p \in Procs |-> {}]
  /\ todo = [p \in Procs |-> {}]
  /\ ret = [p \in Procs |-> None]
  /\ count = [p \in Procs |-> -1]
  /\ emptyQueueCount = [p \in Procs |-> 0]

InitLocals ==
  /\ InitExtra
  /\ InitProcLocals

InitHistory ==
  /\ newCount = [id \in Ids |-> 0]
  /\ pushCount = [id \in Ids |-> 0]
  /\ rqCalls = [id \in Ids |-> 0]
  /\ rqTrue = [id \in Ids |-> 0]
  /\ known = [p \in Procs |-> {}]
  /\ arrival = <<>>
  /\ ackCalls = [id \in Ids |-> 0]

\* main() of every process has awaited initialize() before it starts its work
Initialized ==
  /\ started_at = 1
  /\ clock = 1

\* the coordinator processes, the worker processes, all of them running
Init ==
  /\ InitStore /\ InitLocals /\ InitHistory
  /\ Initialized
  /\ pc = [p \in Procs |-> Home(p)]
  /\ budget = [p \in Procs |-> IF p \in Clients THEN MaxCalls ELSE 0]
  /\ limit = maxRetries


\* faulty variant: the reply of SISMEMBER is ignored
PushListingId_NoCheck(p) ==
  \E id \in Ids :
    /\ CanCall(p)
    /\ budget' = [budget EXCEPT ![p] = @ - 1]
    /\ count' = [count EXCEPT ![p] = -1]
    /\ IF FALSE
         THEN /\ ret' = [ret EXCEPT ![p] = "false"]
              /\ UNCHANGED <<pc, cur>>
         ELSE /\ ret' = [ret EXCEPT ![p] = None]
              /\ pc' = [pc EXCEPT ![p] = "pli_lpush"]
              /\ cur' = [cur EXCEPT ![p] = id]
    /\ UNCHANGED <<store, batch, i, idx, newIds, addedCount, todo,
                   failedIds, emptyQueueCount, limit, history>>
    /\ UNCHANGED known
    /\ UNCHANGED <<arrival, started_at, clock>>
    /\ UNCHANGED ackCalls
    /\ UNCHANGED extra

\* ------------------------------------------------- RedisQueue.pushListingId
\* SISMEMBER all_ids id, and the return when the id is known
PushListingId(p) ==
  \E id \in Ids :
    /\ CanCall(p)
    /\ budget' = [budget EXCEPT ![p] = @ - 1]
    /\ count' = [count EXCEPT ![p] = -1]
    /\ IF id \in all_ids
         THEN /\ ret' = [ret EXCEPT ![p] = "false"]
              /\ UNCHANGED <<pc, cur>>
         ELSE /\ ret' = [ret EXCEPT ![p] = None]
              /\ pc' = [pc EXCEPT ![p] = "pli_lpush"]
              /\ cur' = [cur EXCEPT ![p] = id]
    /\ UNCHANGED <<store, batch, i, idx, newIds, addedCount, todo,
                   failedIds, emptyQueueCount, limit, history>>
    /\ UNCHANGED known
    /\ UNCHANGED <<arrival, started_at, clock>>
    /\ UNCHANGED ackCalls
    /\ UNCHANGED extra

\* first command of the pipeline: LPUSH queue id
PushListingId_lpush(p) ==
  /\ pc[p] = "pli_lpush"
  /\ queue' = LPush(queue, cur[p])
  /\ pushCount' = Inc(pushCount, cur[p])
  /\ pc' = [pc EXCEPT ![p] = "pli_sadd"]
  /\ UNCHANGED <<all_ids, processed, failed, failedErrors, retries>>
  /\ UNCHANGED <<cur, batch, i, idx, newIds, addedCount, todo, failedIds,
                 ret, count, budget, emptyQueueCount, limit>>
  /\ UNCHANGED <<newCount, rqCalls, rqTrue>>
  /\ UNCHANGED known
  /\ arrival' = Append(arrival, cur[p])
  /\ UNCHANGED stats
  /\ UNCHANGED ackCalls
  /\ UNCHANGED extra

\* second command of the pipeline: SADD all_ids id; then return true
PushListingId_sadd(p) ==
  /\ pc[p] = "pli_sadd"
  /\ all_ids' = all_ids \cup {cur[p]}
  /\ newCount' = Inc(newCount, cur[p])
  /\ ret' = [ret EXCEPT ![p] = "true"]
  /\ pc' = [pc EXCEPT ![p] = Home(p)]
  /\ cur' = [cur EXCEPT ![p] = None]
  /\ UNCHANGED <<queue, processed, failed, failedErrors, retries>>
  /\ UNCHANGED <<batch, i, idx, newIds, addedCount, todo, failedIds,
                 count, budget, emptyQueueCount, limit>>
  /\ UNCHANGED <<pushCount, rqCalls, rqTrue>>
  /\ known' = Learn(p, cur[p])
  /\ UNCHANGED <<arrival, started_at, clock>>
  /\ UNCHANGED ackCalls
  /\ UNCHANGED extra

\* ------------------------------------------------ RedisQueue.pushListingIds
\* the call: ids is any list of ids, repeats included
PushListingIds(p) ==
  \E ids \in Batches :
    /\ CanCall(p)
    /\ budget' = [budget EXCEPT ![p] = @ - 1]
    /\ ret' = [ret EXCEPT ![p] = None]
    /\ IF ids = <<>>
         THEN /\ count' = [count EXCEPT ![p] = 0]
              /\ UNCHANGED <<pc, batch>>
         ELSE /\ count' = [count EXCEPT ![p] = -1]
              /\ pc' = [pc EXCEPT ![p] = "plis_sadd"]
              /\ batch' = [batch EXCEPT ![p] = ids]
    /\ UNCHANGED <<store, cur, i, idx, newIds, addedCount, todo,
                   failedIds, emptyQueueCount, limit, history>>
    /\ known' = [known EXCEPT ![p] = all_ids]
    /\ UNCHANGED <<arrival, started_at, clock>>
    /\ UNCHANGED ackCalls
    /\ UNCHANGED extra

\* ids.slice(i, i + batchSize)
Chunk(p) == SubSeq(batch[p], i[p] + 1, Min(i[p] + chunking.batchSize, Len(batch[p])))

\* the end of one pass of the for loop over the chunks: the next chunk, or
\* return addedCount
MoreChunks(p) == i[p] + chunking.batchSize < Len(batch[p])

EndChunk(p, added) ==
  IF MoreChunks(p)
    THEN /\ pc' = [pc EXCEPT ![p] = "plis_sadd"]
         /\ i' = [i EXCEPT ![p] = @ + chunking.batchSize]
         /\ idx' = [idx EXCEPT ![p] = 0]
         /\ newIds' = [newIds EXCEPT ![p] = <<>>]
         /\ addedCount' = [addedCount EXCEPT ![p] = added]
         /\ UNCHANGED <<batch, count>>
    ELSE /\ pc' = [pc EXCEPT ![p] = Home(p)]
         /\ count' = [count EXCEPT ![p] = added]
         /\ batch' = [batch EXCEPT ![p] = <<>>]
         /\ i' = [i EXCEPT ![p] = 0]
         /\ idx' = [idx EXCEPT ![p] = 0]
         /\ newIds' = [newIds EXCEPT ![p] = <<>>]
         /\ addedCount' = [addedCount EXCEPT ![p] = 0]

\* faulty variant: every id of the pipeline is taken as new, whatever SADD replied
PushListingIds_sadd_AllNew(p) ==
  /\ pc[p] = "plis_sadd"
  /\ LET id == Chunk(p)[idx[p] + 1]
         found == Append(newIds[p], id)
     IN /\ all_ids' = all_ids \cup {id}
        /\ known' = [Learn(p, id) EXCEPT ![p] =
                        IF idx[p] + 1 < Len(Chunk(p)) \/ found # <<>> \/ MoreChunks(p)
                          THEN @ ELSE {}]
        /\ IF idx[p] + 1 < Len(Chunk(p))
             THEN /\ idx' = [idx EXCEPT ![p] = @ + 1]
                  /\ newIds' = [newIds EXCEPT ![p] = found]
                  /\ UNCHANGED <<pc, batch, i, addedCount, count>>
             ELSE IF found # <<>>
                    THEN /\ pc' = [pc EXCEPT ![p] = "plis_lpush"]
                         /\ idx' = [idx EXCEPT ![p] = @ + 1]
                         /\ newIds' = [newIds EXCEPT ![p] = found]
                         /\ UNCHANGED <<batch, i, addedCount, count>>
                    ELSE EndChunk(p, addedCount[p])
  /\ UNCHANGED <<queue, processed, failed, failedErrors, retries>>
  /\ UNCHANGED <<cur, todo, failedIds, ret, budget, emptyQueueCount, limit>>
  /\ UNCHANGED history
  /\ UNCHANGED <<arrival, started_at, clock>>
  /\ UNCHANGED ackCalls
  /\ UNCHANGED extra

\* one command of the pipeline: SADD all_ids id.  Its reply is 1 when the id
\* was not a member; newIds keeps the ids whose reply was 1.
PushListingIds_sadd(p) ==
  /\ pc[p] = "plis_sadd"
  /\ LET id == Chunk(p)[idx[p] + 1]
         found == IF id \in all_ids THEN newIds[p] ELSE Append(newIds[p], id)
     IN /\ all_ids' = all_ids \cup {id}
        /\ known' = [Learn(p, id) EXCEPT ![p] =
                        IF idx[p] + 1 < Len(Chunk(p)) \/ found # <<>> \/ MoreChunks(p)
                          THEN @ ELSE {}]
        /\ IF idx[p] + 1 < Len(Chunk(p))
             THEN /\ idx' = [idx EXCEPT ![p] = @ + 1]
                  /\ newIds' = [newIds EXCEPT ![p] = found]
                  /\ UNCHANGED <<pc, batch, i, addedCount, count>>
             ELSE IF found # <<>>
                    THEN /\ pc' = [pc EXCEPT ![p] = "plis_lpush"]
                         /\ idx' = [idx EXCEPT ![p] = @ + 1]
                         /\ newIds' = [newIds EXCEPT ![p] = found]
                         /\ UNCHANGED <<batch, i, addedCount, count>>
                    ELSE EndChunk(p, addedCount[p])
  /\ UNCHANGED <<queue, processed, failed, failedErrors, retries>>
  /\ UNCHANGED <<cur, todo, failedIds, ret, budget, emptyQueueCount, limit>>
  /\ UNCHANGED history
  /\ UNCHANGED <<arrival, started_at, clock>>
  /\ UNCHANGED ackCalls
  /\ UNCHANGED extra

\* faulty variant: addedCount grows by the length of the chunk, not of newIds
PushListingIds_lpush_CountsChunk(p) ==
  /\ pc[p] = "plis_lpush"
  /\ queue' = LPushAll(queue, newIds[p])
  /\ pushCount' = [id \in Ids |-> pushCount[id] + Occurrences(newIds[p], id)]
  /\ newCount' = [id \in Ids |-> newCount[id] + Occurrences(newIds[p], id)]
  /\ EndChunk(p, addedCount[p] + Len(Chunk(p)))
  /\ UNCHANGED <<all_ids, processed, failed, failedErrors, retries>>
  /\ UNCHANGED <<cur, todo, failedIds, ret, budget, emptyQueueCount, limit>>
  /\ UNCHANGED <<rqCalls, rqTrue>>
  /\ known' = [known EXCEPT ![p] = IF MoreChunks(p) THEN @ ELSE {}]
  /\ arrival' = arrival \o newIds[p]
  /\ UNCHANGED stats
  /\ UNCHANGED ackCalls
  /\ UNCHANGED extra

\* faulty variant: the whole chunk is pushed, not the ids that were new
PushListingIds_lpush_PushesChunk(p) ==
  /\ pc[p] = "plis_lpush"
  /\ queue' = LPushAll(queue, Chunk(p))
  /\ pushCount' = [id \in Ids |-> pushCount[id] + Occurrences(Chunk(p), id)]
  /\ newCount' = [id \in Ids |-> newCount[id] + Occurrences(newIds[p], id)]
  /\ EndChunk(p, addedCount[p] + Len(newIds[p]))
  /\ UNCHANGED <<all_ids, processed, failed, failedErrors, retries>>
  /\ UNCHANGED <<cur, todo, failedIds, ret, budget, emptyQueueCount, limit>>
  /\ UNCHANGED <<rqCalls, rqTrue>>
  /\ known' = [known EXCEPT ![p] = IF MoreChunks(p) THEN @ ELSE {}]
  /\ arrival' = arrival \o Chunk(p)
  /\ UNCHANGED stats
  /\ UNCHANGED ackCalls
  /\ UNCHANGED extra

\* faulty variant: addedCount is set to the count of the chunk, not raised by it
PushListingIds_lpush_CountsLastChunk(p) ==
  /\ pc[p] = "plis_lpush"
  /\ queue' = LPushAll(queue, newIds[p])
  /\ pushCount' = [id \in Ids |-> pushCount[id] + Occurrences(newIds[p], id)]
  /\ newCount' = [id \in Ids |-> newCount[id] + Occurrences(newIds[p], id)]
  /\ EndChunk(p, Len(newIds[p]))
  /\ UNCHANGED <<all_ids, processed, failed, failedErrors, retries>>
  /\ UNCHANGED <<cur, todo, failedIds, ret, budget, emptyQueueCount, limit>>
  /\ UNCHANGED <<rqCalls, rqTrue>>
  /\ known' = [known EXCEPT ![p] = IF MoreChunks(p) THEN @ ELSE {}]
  /\ arrival' = arrival \o newIds[p]
  /\ UNCHANGED stats
  /\ UNCHANGED ackCalls
  /\ UNCHANGED extra

\* LPUSH queue ...newIds; addedCount += newIds.length
PushListingIds_lpush(p) ==
  /\ pc[p] = "plis_lpush"
  /\ queue' = LPushAll(queue, newIds[p])
  /\ pushCount' = [id \in Ids |-> pushCount[id] + Occurrences(newIds[p], id)]
  /\ newCount' = [id \in Ids |-> newCount[id] + Occurrences(newIds[p], id)]
  /\ EndChunk(p, addedCount[p] + Len(newIds[p]))
  /\ UNCHANGED <<all_ids, processed, failed, failedErrors, retries>>
  /\ UNCHANGED <<cur, todo, failedIds, ret, budget, emptyQueueCount, limit>>
  /\ UNCHANGED <<rqCalls, rqTrue>>
  /\ known' = [known EXCEPT ![p] = IF MoreChunks(p) THEN @ ELSE {}]
  /\ arrival' = arrival \o newIds[p]
  /\ UNCHANGED stats
  /\ UNCHANGED ackCalls
  /\ UNCHANGED extra

\* faulty variant: the reply is compared with < in place of <=
IncrementRetry_Strict(p, id, L) ==
  /\ retries' = Inc(retries, id)
  /\ pc' = [pc EXCEPT ![p] = IF retries[id] + 1 < L THEN "rq_lpush" ELSE "rq_sadd"]
  /\ cur' = [cur EXCEPT ![p] = id]
  /\ ret' = [ret EXCEPT ![p] = None]
  /\ count' = [count EXCEPT ![p] = -1]
  /\ UNCHANGED <<queue, all_ids, processed, failed, failedErrors>>
  /\ UNCHANGED <<batch, i, idx, newIds, addedCount, todo, failedIds,
                 emptyQueueCount, limit>>
  /\ UNCHANGED history
  /\ UNCHANGED known
  /\ UNCHANGED <<arrival, started_at, clock>>
  /\ UNCHANGED ackCalls
  /\ UNCHANGED extra

\* faulty variant: the count before the increment is compared with the limit
IncrementRetry_Stale(p, id, L) ==
  /\ retries' = Inc(retries, id)
  /\ pc' = [pc EXCEPT ![p] = IF retries[id] <= L THEN "rq_lpush" ELSE "rq_sadd"]
  /\ cur' = [cur EXCEPT ![p] = id]
  /\ ret' = [ret EXCEPT ![p] = None]
  /\ count' = [count EXCEPT ![p] = -1]
  /\ UNCHANGED <<queue, all_ids, processed, failed, failedErrors>>
  /\ UNCHANGED <<batch, i, idx, newIds, addedCount, todo, failedIds,
                 emptyQueueCount, limit>>
  /\ UNCHANGED history
  /\ UNCHANGED known
  /\ UNCHANGED <<arrival, started_at, clock>>
  /\ UNCHANGED ackCalls
  /\ UNCHANGED extra

\* ---------------------------------------------- RedisQueue.requeueWithRetry
\* incrementRetry: HINCRBY retries id 1, and the comparison of its reply
IncrementRetry(p, id, L) ==
  /\ retries' = Inc(retries, id)
  /\ pc' = [pc EXCEPT ![p] = IF retries[id] + 1 <= L THEN "rq_lpush" ELSE "rq_sadd"]
  /\ cur' = [cur EXCEPT ![p] = id]
  /\ ret' = [ret EXCEPT ![p] = None]
  /\ count' = [count EXCEPT ![p] = -1]
  /\ UNCHANGED <<queue, all_ids, processed, failed, failedErrors>>
  /\ UNCHANGED <<batch, i, idx, newIds, addedCount, todo, failedIds,
                 emptyQueueCount, limit>>
  /\ UNCHANGED history
  /\ UNCHANGED known
  /\ UNCHANGED <<arrival, started_at, clock>>
  /\ UNCHANGED ackCalls
  /\ UNCHANGED extra

\* a client calls requeueWithRetry(id, limit)
RequeueWithRetry(p) ==
  \E id \in Ids :
    /\ CanCall(p)
    /\ budget' = [budget EXCEPT ![p] = @ - 1]
    /\ IncrementRetry(p, id, limit)

\* retries <= maxRetries: LPUSH queue id; return true
RequeueWithRetry_lpush(p) ==
  /\ pc[p] = "rq_lpush"
  /\ queue' = LPush(queue, cur[p])
  /\ ret' = [ret EXCEPT ![p] = Result(p, "true")]
  /\ rqCalls' = Inc(rqCalls, cur[p])
  /\ rqTrue' = Inc(rqTrue, cur[p])
  /\ pc' = [pc EXCEPT ![p] = Home(p)]
  /\ cur' = [cur EXCEPT ![p] = None]
  /\ UNCHANGED <<all_ids, processed, failed, failedErrors, retries>>
  /\ UNCHANGED <<batch, i, idx, newIds, addedCount, todo, failedIds,
                 count, budget, emptyQueueCount, limit>>
  /\ UNCHANGED <<newCount, pushCount>>
  /\ UNCHANGED known
  /\ arrival' = Append(arrival, cur[p])
  /\ UNCHANGED stats
  /\ UNCHANGED ackCalls
  /\ UNCHANGED extra

\* faulty variant: the exhausted id is marked failed and pushed once more
RequeueWithRetry_sadd_Requeues(p) ==
  /\ pc[p] = "rq_sadd"
  /\ failed' = failed \cup {cur[p]}
  /\ queue' = LPush(queue, cur[p])
  /\ arrival' = Append(arrival, cur[p])
  /\ pc' = [pc EXCEPT ![p] = "rq_hset"]
  /\ UNCHANGED <<all_ids, processed, failedErrors, retries>>
  /\ UNCHANGED <<cur, batch, i, idx, newIds, addedCount, todo, failedIds,
                 ret, count, budget, emptyQueueCount, limit>>
  /\ UNCHANGED history
  /\ UNCHANGED known
  /\ UNCHANGED stats
  /\ UNCHANGED ackCalls
  /\ UNCHANGED extra

\* otherwise markFailed(id, reason): SADD failed id
RequeueWithRetry_sadd(p) ==
  /\ pc[p] = "rq_sadd"
  /\ failed' = failed \cup {cur[p]}
  /\ pc' = [pc EXCEPT ![p] = "rq_hset"]
  /\ UNCHANGED <<queue, all_ids, processed, failedErrors, retries>>
  /\ UNCHANGED <<cur, batch, i, idx, newIds, addedCount, todo, failedIds,
                 ret, count, budget, emptyQueueCount, limit>>
  /\ UNCHANGED history
  /\ UNCHANGED known
  /\ UNCHANGED <<arrival, started_at, clock>>
  /\ UNCHANGED ackCalls
  /\ UNCHANGED extra

\* markFailed: HSET failed:errors id reason; return false
RequeueWithRetry_hset(p) ==
  /\ pc[p] = "rq_hset"
  /\ failedErrors' = failedErrors \cup {cur[p]}
  /\ ret' = [ret EXCEPT ![p] = Result(p, "false")]
  /\ rqCalls' = Inc(rqCalls, cur[p])
  /\ pc' = [pc EXCEPT ![p] = Home(p)]
  /\ cur' = [cur EXCEPT ![p] = None]
  /\ UNCHANGED <<queue, all_ids, processed, failed, retries>>
  /\ UNCHANGED <<batch, i, idx, newIds, addedCount, todo, failedIds,
                 count, budget, emptyQueueCount, limit>>
  /\ UNCHANGED <<newCount, pushCount, rqTrue>>
  /\ UNCHANGED known
  /\ UNCHANGED <<arrival, started_at, clock>>
  /\ UNCHANGED ackCalls
  \* processProperty: if (!requeued) this.failedCount++
  /\ failedCount' = [failedCount EXCEPT ![p] = IF p \in Workers THEN @ + 1 ELSE @]
  /\ UNCHANGED <<qstats, sent, discovery, reachable, storeErrors, signing, processedCount, scraper, chunking, encoder>>

\* ---------------------------------------------------- RedisQueue.markFailed
\* a client calls markFailed(id, error?): SADD failed id
MarkFailed(p) ==
  \E id \in Ids, withError \in BOOLEAN :
    /\ CanCall(p)
    /\ budget' = [budget EXCEPT ![p] = @ - 1]
    /\ failed' = failed \cup {id}
    /\ ret' = [ret EXCEPT ![p] = None]
    /\ count' = [count EXCEPT ![p] = -1]
    /\ IF withError
         THEN /\ pc' = [pc EXCEPT ![p] = "mf_hset"]
              /\ cur' = [cur EXCEPT ![p] = id]
         ELSE UNCHANGED <<pc, cur>>
    /\ UNCHANGED <<queue, all_ids, processed, failedErrors, retries>>
    /\ UNCHANGED <<batch, i, idx, newIds, addedCount, failedIds, todo,
                   emptyQueueCount, limit>>
    /\ UNCHANGED history
    /\ UNCHANGED known
    /\ UNCHANGED <<arrival, started_at, clock>>
    /\ UNCHANGED ackCalls
    /\ UNCHANGED extra

\* if (error): HSET failed:errors id error
MarkFailed_hset(p) ==
  /\ pc[p] = "mf_hset"
  /\ failedErrors' = failedErrors \cup {cur[p]}
  /\ pc' = [pc EXCEPT ![p] = Home(p)]
  /\ cur' = [cur EXCEPT ![p] = None]
  /\ UNCHANGED <<queue, all_ids, processed, failed, retries>>
  /\ UNCHANGED <<batch, i, idx, newIds, addedCount, failedIds, todo,
                 ret, count, budget, emptyQueueCount, limit>>
  /\ UNCHANGED history
  /\ UNCHANGED known
  /\ UNCHANGED <<arrival, started_at, clock>>
  /\ UNCHANGED ackCalls
  /\ UNCHANGED extra

\* faulty variant: the ack is counted in the retries hash as well
MarkProcessed_call_Counts(p, id) ==
  /\ CanCall(p)
  /\ budget' = [budget EXCEPT ![p] = @ - 1]
  /\ processed' = processed \cup {id}
  /\ retries' = Inc(retries, id)
  /\ ret' = [ret EXCEPT ![p] = None]
  /\ count' = [count EXCEPT ![p] = -1]
  /\ UNCHANGED <<queue, all_ids, failed, failedErrors>>
  /\ UNCHANGED <<pc, cur, batch, i, idx, newIds, addedCount, failedIds, todo,
                 emptyQueueCount, limit>>
  /\ UNCHANGED history
  /\ UNCHANGED known
  /\ UNCHANGED <<arrival, started_at, clock>>
  /\ ackCalls' = Inc(ackCalls, id)
  /\ UNCHANGED extra

\* ------------------------------------------------ RedisQueue.markProcessed
\* a client calls markProcessed(id): SADD processed id
MarkProcessed_call(p, id) ==
  /\ CanCall(p)
  /\ budget' = [budget EXCEPT ![p] = @ - 1]
  /\ processed' = processed \cup {id}
  /\ ret' = [ret EXCEPT ![p] = None]
  /\ count' = [count EXCEPT ![p] = -1]
  /\ UNCHANGED <<queue, all_ids, failed, failedErrors, retries>>
  /\ UNCHANGED <<pc, cur, batch, i, idx, newIds, addedCount, failedIds, todo,
                 emptyQueueCount, limit>>
  /\ UNCHANGED history
  /\ UNCHANGED known
  /\ UNCHANGED <<arrival, started_at, clock>>
  /\ ackCalls' = Inc(ackCalls, id)
  /\ UNCHANGED extra

\* ------------------------------------------- RedisQueue.retryFailedListings
\* getFailedIds: SMEMBERS failed, and the return when there are none
RetryFailedListings(p) ==
  /\ CanCall(p)
  /\ budget' = [budget EXCEPT ![p] = @ - 1]
  /\ ret' = [ret EXCEPT ![p] = None]
  /\ IF failed = {}
       THEN /\ count' = [count EXCEPT ![p] = 0]
            /\ UNCHANGED <<pc, failedIds, todo>>
       ELSE /\ count' = [count EXCEPT ![p] = -1]
            /\ pc' = [pc EXCEPT ![p] = "rf_srem"]
            /\ failedIds' = [failedIds EXCEPT ![p] = failed]
            /\ todo' = [todo EXCEPT ![p] = failed]
  /\ UNCHANGED <<store, cur, batch, i, idx, newIds, addedCount,
                 emptyQueueCount, limit, history>>
  /\ UNCHANGED known
  /\ UNCHANGED <<arrival, started_at, clock>>
  /\ UNCHANGED ackCalls
  /\ UNCHANGED extra

\* faulty variant: the id is taken out of all_ids too, to be discovered anew
RetryFailedListings_srem_Forgets(p) ==
  \E id \in todo[p] :
    /\ pc[p] = "rf_srem"
    /\ failed' = failed \ {id}
    /\ all_ids' = all_ids \ {id}
    /\ cur' = [cur EXCEPT ![p] = id]
    /\ pc' = [pc EXCEPT ![p] = "rf_lpush"]
    /\ UNCHANGED <<queue, processed, failedErrors, retries>>
    /\ UNCHANGED <<batch, i, idx, newIds, addedCount, failedIds, todo,
                   ret, count, budget, emptyQueueCount, limit>>
    /\ UNCHANGED history
    /\ UNCHANGED known
    /\ UNCHANGED <<arrival, started_at, clock>>
    /\ UNCHANGED ackCalls
    /\ UNCHANGED extra

\* pipeline, for the next id of failedIds (SMEMBERS replies in any order):
\* SREM failed id
RetryFailedListings_srem(p) ==
  \E id \in todo[p] :
    /\ pc[p] = "rf_srem"
    /\ failed' = failed \ {id}
    /\ cur' = [cur EXCEPT ![p] = id]
    /\ pc' = [pc EXCEPT ![p] = "rf_lpush"]
    /\ UNCHANGED <<queue, all_ids, processed, failedErrors, retries>>
    /\ UNCHANGED <<batch, i, idx, newIds, addedCount, failedIds, todo,
                   ret, count, budget, emptyQueueCount, limit>>
    /\ UNCHANGED history
    /\ UNCHANGED known
    /\ UNCHANGED <<arrival, started_at, clock>>
    /\ UNCHANGED ackCalls
    /\ UNCHANGED extra

\* LPUSH queue id
RetryFailedListings_lpush(p) ==
  /\ pc[p] = "rf_lpush"
  /\ queue' = LPush(queue, cur[p])
  /\ pc' = [pc EXCEPT ![p] = "rf_hdel"]
  /\ UNCHANGED <<all_ids, processed, failed, failedErrors, retries>>
  /\ UNCHANGED <<cur, batch, i, idx, newIds, addedCount, failedIds, todo,
                 ret, count, budget, emptyQueueCount, limit>>
  /\ UNCHANGED history
  /\ UNCHANGED known
  /\ arrival' = Append(arrival, cur[p])
  /\ UNCHANGED stats
  /\ UNCHANGED ackCalls
  /\ UNCHANGED extra

\* faulty variant: the retry counter of the moved id is kept
RetryFailedListings_hdel_Keeps(p) ==
  /\ pc[p] = "rf_hdel"
  /\ cur' = [cur EXCEPT ![p] = None]
  /\ IF todo[p] = {cur[p]}
       THEN /\ pc' = [pc EXCEPT ![p] = Home(p)]
            /\ count' = [count EXCEPT ![p] = Cardinality(failedIds[p])]
            /\ failedIds' = [failedIds EXCEPT ![p] = {}]
            /\ todo' = [todo EXCEPT ![p] = {}]
       ELSE /\ pc' = [pc EXCEPT ![p] = "rf_srem"]
            /\ todo' = [todo EXCEPT ![p] = @ \ {cur[p]}]
            /\ UNCHANGED <<count, failedIds>>
  /\ UNCHANGED <<queue, all_ids, processed, failed, failedErrors, retries>>
  /\ UNCHANGED <<batch, i, idx, newIds, addedCount, ret, budget,
                 emptyQueueCount, limit>>
  /\ UNCHANGED history
  /\ UNCHANGED known
  /\ UNCHANGED <<arrival, started_at, clock>>
  /\ UNCHANGED ackCalls
  /\ UNCHANGED extra

\* HDEL retries id; after the last id return failedIds.length
RetryFailedListings_hdel(p) ==
  /\ pc[p] = "rf_hdel"
  /\ retries' = [retries EXCEPT ![cur[p]] = 0]
  /\ rqCalls' = [rqCalls EXCEPT ![cur[p]] = 0]
  /\ rqTrue' = [rqTrue EXCEPT ![cur[p]] = 0]
  /\ cur' = [cur EXCEPT ![p] = None]
  /\ IF todo[p] = {cur[p]}
       THEN /\ pc' = [pc EXCEPT ![p] = Home(p)]
            /\ count' = [count EXCEPT ![p] = Cardinality(failedIds[p])]
            /\ failedIds' = [failedIds EXCEPT ![p] = {}]
            /\ todo' = [todo EXCEPT ![p] = {}]
       ELSE /\ pc' = [pc EXCEPT ![p] = "rf_srem"]
            /\ todo' = [todo EXCEPT ![p] = @ \ {cur[p]}]
            /\ UNCHANGED <<count, failedIds>>
  /\ UNCHANGED <<queue, all_ids, processed, failed, failedErrors>>
  /\ UNCHANGED <<batch, i, idx, newIds, addedCount, ret, budget,
                 emptyQueueCount, limit>>
  /\ UNCHANGED <<newCount, pushCount>>
  /\ UNCHANGED known
  /\ UNCHANGED <<arrival, started_at, clock>>
  /\ UNCHANGED ackCalls
  /\ UNCHANGED extra

\* --------------------------------------------------------- RedisQueue.clear
\* DEL queue all_ids processed failed retries stats: one command
Clear(p) ==
  /\ CanCall(p)
  /\ budget' = [budget EXCEPT ![p] = @ - 1]
  /\ queue' = <<>>
  /\ all_ids' = {}
  /\ processed' = {}
  /\ failed' = {}
  /\ retries' = [id \in Ids |-> 0]
  /\ ret' = [ret EXCEPT ![p] = None]
  /\ count' = [count EXCEPT ![p] = -1]
  /\ newCount' = [id \in Ids |-> 0]
  /\ pushCount' = [id \in Ids |-> 0]
  /\ rqCalls' = [id \in Ids |-> 0]
  /\ rqTrue' = [id \in Ids |-> 0]
  /\ UNCHANGED <<failedErrors, pc, cur, batch, i, idx, newIds, addedCount,
                 failedIds, todo, emptyQueueCount, limit>>
  /\ UNCHANGED known
  /\ arrival' = <<>>
  /\ started_at' = 0
  /\ UNCHANGED clock
  /\ ackCalls' = [id \in Ids |-> 0]
  /\ UNCHANGED extra

\* ----------------------------------------------------- RedisQueue.getStats
\* (reply as number) || 0
OrZero(reply) == IF reply = 0 THEN 0 ELSE reply

\* startedAt || undefined, for the reply of HGET (0 = null, no field)
OrUndefined(reply) == IF reply = 0 THEN Undefined ELSE reply

\* a step of getStats that only reads the store
ReadsOnly(p) ==
  /\ UNCHANGED <<store, cur, batch, i, idx, newIds, addedCount, failedIds,
                 todo, ret, count, emptyQueueCount, limit, history>>
  /\ UNCHANGED known
  /\ UNCHANGED <<arrival, started_at, clock>>
  /\ UNCHANGED ackCalls
  /\ UNCHANGED <<sent, discovery, reachable, storeErrors, signing, counters, scraper, chunking, encoder>>

\* the call, and the first command of the pipeline: LLEN queue
GetStats(p) ==
  /\ CanCall(p)
  /\ budget' = [budget EXCEPT ![p] = @ - 1]
  /\ qstats' = [qstats EXCEPT ![p] =
                  [NoStats EXCEPT !.queueDepth = OrZero(Len(queue)),
                                  !.remaining = OrZero(Len(queue))]]
  /\ pc' = [pc EXCEPT ![p] = "gs_all"]
  /\ ReadsOnly(p)

\* SCARD all_ids
GetStats_all(p) ==
  /\ pc[p] = "gs_all"
  /\ qstats' = [qstats EXCEPT ![p].totalDiscovered = OrZero(Cardinality(all_ids))]
  /\ pc' = [pc EXCEPT ![p] = "gs_processed"]
  /\ ReadsOnly(p)
  /\ UNCHANGED budget

\* faulty variant: processedCount is read from the all_ids key
GetStats_processed_WrongKey(p) ==
  /\ pc[p] = "gs_processed"
  /\ qstats' = [qstats EXCEPT ![p].processedCount = OrZero(Cardinality(all_ids))]
  /\ pc' = [pc EXCEPT ![p] = "gs_failed"]
  /\ ReadsOnly(p)
  /\ UNCHANGED budget

\* SCARD processed
GetStats_processed(p) ==
  /\ pc[p] = "gs_processed"
  /\ qstats' = [qstats EXCEPT ![p].processedCount = OrZero(Cardinality(processed))]
  /\ pc' = [pc EXCEPT ![p] = "gs_failed"]
  /\ ReadsOnly(p)
  /\ UNCHANGED budget

\* SCARD failed
GetStats_failed(p) ==
  /\ pc[p] = "gs_failed"
  /\ qstats' = [qstats EXCEPT ![p].failedCount = OrZero(Cardinality(failed))]
  /\ pc' = [pc EXCEPT ![p] = "gs_hget"]
  /\ ReadsOnly(p)
  /\ UNCHANGED budget

\* HGET stats started_at; return the QueueStats
GetStats_hget(p) ==
  /\ pc[p] = "gs_hget"
  /\ qstats' = [qstats EXCEPT ![p].startedAt = OrUndefined(started_at)]
  /\ pc' = [pc EXCEPT ![p] = Home(p)]
  /\ ReadsOnly(p)
  /\ UNCHANGED budget

\* ------------------------------- ImmobilienScout24Coordinator.discoverAllCities
\* the frame of a step of the discovery loop that sends no command
LoopOnly ==
  /\ UNCHANGED <<store, cur, failedIds, todo, ret, count, emptyQueueCount,
                 limit, history>>
  /\ UNCHANGED <<arrival, started_at, clock>>
  /\ UNCHANGED ackCalls
  /\ UNCHANGED <<qstats, sent, reachable, storeErrors, signing, counters, scraper, chunking, encoder>>

\* the locals of pushListingIds are given up when the call throws
Abandon(p) ==
  /\ pc' = [pc EXCEPT ![p] = Home(p)]
  /\ batch' = [batch EXCEPT ![p] = <<>>]
  /\ i' = [i EXCEPT ![p] = 0]
  /\ idx' = [idx EXCEPT ![p] = 0]
  /\ newIds' = [newIds EXCEPT ![p] = <<>>]
  /\ addedCount' = [addedCount EXCEPT ![p] = 0]
  /\ known' = [known EXCEPT ![p] = {}]

\* the next combination: discoverProperties is called and scrapeSearch
\* returns; pushListingIds(ids) is the next call
DiscoverProperties(p) ==
  /\ p = "c1"
  /\ pc[p] = "idle"
  /\ discovery.phase = "scrape"
  /\ discovery.k < NumCombinations
  /\ discovery' = [discovery EXCEPT !.phase = "push",
                                     !.invoked = @ \cup {discovery.k + 1}]
  /\ budget' = [budget EXCEPT ![p] = 1]
  /\ UNCHANGED <<pc, batch, i, idx, newIds, addedCount, known>>
  /\ LoopOnly

\* faulty variant: the failure is not caught and ends the pass
DiscoverProperties_pushThrows_Aborts(p) ==
  /\ p = "c1"
  /\ discovery.phase = "push"
  /\ pc[p] \in {"plis_sadd", "plis_lpush"}
  /\ discovery' = [discovery EXCEPT !.phase = "done"]
  /\ Abandon(p)
  /\ UNCHANGED budget
  /\ LoopOnly

\* pushListingIds throws (a command fails): the catch block returns 0
DiscoverProperties_pushThrows(p) ==
  /\ p = "c1"
  /\ discovery.phase = "push"
  /\ pc[p] \in {"plis_sadd", "plis_lpush"}
  /\ discovery' = [discovery EXCEPT !.phase = "scrape",
                                     !.k = @ + 1,
                                     !.totalNewIds = @ + 0]
  /\ Abandon(p)
  /\ UNCHANGED budget
  /\ LoopOnly

\* pushListingIds has returned: totalNewIds += newCount
DiscoverProperties_return(p) ==
  /\ p = "c1"
  /\ discovery.phase = "push"
  /\ pc[p] = "idle"
  /\ budget[p] = 0
  /\ discovery' = [discovery EXCEPT !.phase = "scrape",
                                     !.k = @ + 1,
                                     !.totalNewIds = @ + count[p]]
  /\ UNCHANGED <<pc, batch, i, idx, newIds, addedCount, known, budget>>
  /\ LoopOnly

\* the loops are through: the final statistics are logged
DiscoverAllCities_done(p) ==
  /\ p = "c1"
  /\ pc[p] = "idle"
  /\ discovery.phase = "scrape"
  /\ discovery.k = NumCombinations
  /\ discovery' = [discovery EXCEPT !.phase = "done"]
  /\ UNCHANGED <<pc, batch, i, idx, newIds, addedCount, known, budget>>
  /\ LoopOnly

\* --------------------------------------------------- RedisQueue.initialize
\* HGET stats started_at; the call returns when the field is there
Initialize(p) ==
  /\ pc[p] = "init"
  /\ budget[p] > 0
  /\ budget' = [budget EXCEPT ![p] = @ - 1]
  /\ pc' = [pc EXCEPT ![p] = IF started_at # 0 THEN "init" ELSE "init_hset"]
  /\ UNCHANGED <<store, cur, batch, i, idx, newIds, addedCount, failedIds,
                 todo, ret, count, emptyQueueCount, limit, history>>
  /\ UNCHANGED known
  /\ UNCHANGED <<arrival, started_at, clock>>
  /\ UNCHANGED ackCalls
  /\ UNCHANGED extra

\* HSET stats started_at new Date().toISOString()
Initialize_hset(p) ==
  /\ pc[p] = "init_hset"
  /\ started_at' = clock
  /\ pc' = [pc EXCEPT ![p] = "init"]
  /\ UNCHANGED <<store, cur, batch, i, idx, newIds, addedCount, failedIds,
                 todo, ret, count, budget, emptyQueueCount, limit, history>>
  /\ UNCHANGED known
  /\ UNCHANGED <<arrival, clock>>
  /\ UNCHANGED ackCalls
  /\ UNCHANGED extra

\* time passes
Tick ==
  /\ clock < MaxClock
  /\ clock' = clock + 1
  /\ UNCHANGED <<store, locals, history, known, arrival, started_at>>
  /\ UNCHANGED ackCalls
  /\ UNCHANGED extra

\* ---------------------------------------- ImmobilienScout24Worker.start
\* faulty variant: the entry is taken from the left end (LPOP)
PopListingId_lpop(w) ==
  /\ w \in Workers
  /\ pc[w] = "pop"
  /\ queue # <<>>
  /\ cur' = [cur EXCEPT ![w] = Head(queue)]
  /\ queue' = Tail(queue)
  /\ emptyQueueCount' = [emptyQueueCount EXCEPT ![w] = 0]
  /\ pc' = [pc EXCEPT ![w] = "isProcessed"]
  /\ UNCHANGED <<all_ids, processed, failed, failedErrors, retries>>
  /\ UNCHANGED <<batch, i, idx, newIds, addedCount, failedIds, todo,
                 ret, count, budget, limit>>
  /\ UNCHANGED history
  /\ UNCHANGED known
  /\ arrival' = RemoveFirst(arrival, Head(queue))
  /\ UNCHANGED stats
  /\ UNCHANGED ackCalls
  /\ UNCHANGED extra

\* faulty variant: the right end is read and left in the list
PopListingId_peek(w) ==
  /\ w \in Workers
  /\ pc[w] = "pop"
  /\ queue # <<>>
  /\ cur' = [cur EXCEPT ![w] = RightEnd(queue)]
  /\ emptyQueueCount' = [emptyQueueCount EXCEPT ![w] = 0]
  /\ pc' = [pc EXCEPT ![w] = "isProcessed"]
  /\ UNCHANGED <<store, batch, i, idx, newIds, addedCount, failedIds, todo,
                 ret, count, budget, limit>>
  /\ UNCHANGED history
  /\ UNCHANGED known
  /\ UNCHANGED <<arrival, started_at, clock>>
  /\ UNCHANGED ackCalls
  /\ UNCHANGED extra

\* faulty variant: the count of empty results survives a dequeued id
PopListingId_NoReset(w) ==
  /\ w \in Workers
  /\ pc[w] = "pop"
  /\ queue # <<>>
  /\ cur' = [cur EXCEPT ![w] = RightEnd(queue)]
  /\ queue' = DropRight(queue)
  /\ pc' = [pc EXCEPT ![w] = "isProcessed"]
  /\ UNCHANGED <<all_ids, processed, failed, failedErrors, retries>>
  /\ UNCHANGED <<batch, i, idx, newIds, addedCount, failedIds, todo,
                 ret, count, budget, emptyQueueCount, limit>>
  /\ UNCHANGED history
  /\ UNCHANGED known
  /\ arrival' = RemoveFirst(arrival, RightEnd(queue))
  /\ UNCHANGED stats
  /\ UNCHANGED ackCalls
  /\ UNCHANGED extra

\* popListingId: BRPOP queue 5 replies with the right end of the list
PopListingId(w) ==
  /\ w \in Workers
  /\ pc[w] = "pop"
  /\ queue # <<>>
  /\ cur' = [cur EXCEPT ![w] = RightEnd(queue)]
  /\ queue' = DropRight(queue)
  /\ emptyQueueCount' = [emptyQueueCount EXCEPT ![w] = 0]
  /\ pc' = [pc EXCEPT ![w] = "isProcessed"]
  /\ UNCHANGED <<all_ids, processed, failed, failedErrors, retries>>
  /\ UNCHANGED <<batch, i, idx, newIds, addedCount, failedIds, todo,
                 ret, count, budget, limit>>
  /\ UNCHANGED history
  /\ UNCHANGED known
  /\ arrival' = RemoveFirst(arrival, RightEnd(queue))
  /\ UNCHANGED stats
  /\ UNCHANGED ackCalls
  /\ UNCHANGED extra

\* faulty variant: the loop is left one empty result too late
PopListingId_null_OffByOne(w) ==
  /\ w \in Workers
  /\ pc[w] = "pop"
  /\ queue = <<>>
  /\ emptyQueueCount' = [emptyQueueCount EXCEPT ![w] = @ + 1]
  /\ pc' = [pc EXCEPT ![w] =
              IF emptyQueueCount[w] + 1 > maxEmptyChecks THEN "stopped" ELSE "pop"]
  /\ UNCHANGED <<store, cur, batch, i, idx, newIds, addedCount, failedIds,
                 todo, ret, count, budget, limit, history>>
  /\ UNCHANGED known
  /\ UNCHANGED <<arrival, started_at, clock>>
  /\ UNCHANGED ackCalls
  /\ UNCHANGED extra

\* BRPOP times out on the empty list: popListingId returns null.  Below the
\* threshold the worker logs getStats(), which reads the store only
PopListingId_null(w) ==
  /\ w \in Workers
  /\ pc[w] = "pop"
  /\ queue = <<>>
  /\ emptyQueueCount' = [emptyQueueCount EXCEPT ![w] = @ + 1]
  /\ pc' = [pc EXCEPT ![w] =
              IF emptyQueueCount[w] + 1 >= maxEmptyChecks THEN "stopped" ELSE "pop"]
  /\ UNCHANGED <<store, cur, batch, i, idx, newIds, addedCount, failedIds,
                 todo, ret, count, budget, limit, history>>
  /\ UNCHANGED known
  /\ UNCHANGED <<arrival, started_at, clock>>
  /\ UNCHANGED ackCalls
  /\ UNCHANGED extra

\* --------------------------------- ImmobilienScout24Worker.processProperty
\* faulty variant: the reply of SISMEMBER is ignored and the id is fetched
IsProcessed_Ignored(w) ==
  /\ pc[w] = "isProcessed"
  /\ pc' = [pc EXCEPT ![w] = "search"]
  /\ UNCHANGED <<store, cur, batch, i, idx, newIds, addedCount, failedIds, todo,
                 ret, count, budget, emptyQueueCount, limit, history>>
  /\ UNCHANGED known
  /\ UNCHANGED <<arrival, started_at, clock>>
  /\ UNCHANGED ackCalls
  /\ UNCHANGED extra

\* isProcessed: SISMEMBER processed id; a member is skipped
IsProcessed(w) ==
  /\ pc[w] = "isProcessed"
  /\ IF cur[w] \in processed
       THEN /\ pc' = [pc EXCEPT ![w] = "pop"]
            /\ cur' = [cur EXCEPT ![w] = None]
       ELSE /\ pc' = [pc EXCEPT ![w] = "search"]
            /\ UNCHANGED cur
  /\ UNCHANGED <<store, batch, i, idx, newIds, addedCount, failedIds, todo,
                 ret, count, budget, emptyQueueCount, limit, history>>
  /\ UNCHANGED known
  /\ UNCHANGED <<arrival, started_at, clock>>
  /\ UNCHANGED ackCalls
  /\ UNCHANGED extra

\* scraper.search returns
Search(w) ==
  /\ pc[w] = "search"
  /\ pc' = [pc EXCEPT ![w] = "markProcessed"]
  /\ UNCHANGED <<store, cur, batch, i, idx, newIds, addedCount, failedIds,
                 todo, ret, count, budget, emptyQueueCount, limit, history>>
  /\ UNCHANGED known
  /\ UNCHANGED <<arrival, started_at, clock>>
  /\ UNCHANGED ackCalls
  /\ UNCHANGED extra

\* scraper.search throws: the catch block calls requeueWithRetry(id, 3)
Search_throws(w) ==
  /\ pc[w] = "search"
  /\ pc' = [pc EXCEPT ![w] = "catch"]
  /\ UNCHANGED <<store, cur, batch, i, idx, newIds, addedCount, failedIds,
                 todo, ret, count, budget, emptyQueueCount, limit, history>>
  /\ UNCHANGED known
  /\ UNCHANGED <<arrival, started_at, clock>>
  /\ UNCHANGED ackCalls
  /\ UNCHANGED extra

Catch(w) ==
  /\ pc[w] = "catch"
  /\ IncrementRetry(w, cur[w], maxRetries)
  /\ UNCHANGED budget

\* faulty variant: the retry counter of the id is deleted on success
MarkProcessed_ResetsRetries(w) ==
  /\ pc[w] = "markProcessed"
  /\ processed' = processed \cup {cur[w]}
  /\ retries' = [retries EXCEPT ![cur[w]] = 0]
  /\ pc' = [pc EXCEPT ![w] = "pop"]
  /\ cur' = [cur EXCEPT ![w] = None]
  /\ UNCHANGED <<queue, all_ids, failed, failedErrors>>
  /\ UNCHANGED <<batch, i, idx, newIds, addedCount, failedIds, todo,
                 ret, count, budget, emptyQueueCount, limit>>
  /\ UNCHANGED history
  /\ UNCHANGED known
  /\ UNCHANGED <<arrival, started_at, clock>>
  /\ UNCHANGED ackCalls
  /\ processedCount' = [processedCount EXCEPT ![w] = @ + 1]
  /\ UNCHANGED <<qstats, sent, discovery, reachable, storeErrors, signing, failedCount, scraper, chunking, encoder>>

\* markProcessed: SADD processed id
MarkProcessed(w) ==
  /\ pc[w] = "markProcessed"
  /\ processed' = processed \cup {cur[w]}
  /\ pc' = [pc EXCEPT ![w] = "pop"]
  /\ cur' = [cur EXCEPT ![w] = None]
  /\ UNCHANGED <<queue, all_ids, failed, failedErrors, retries>>
  /\ UNCHANGED <<batch, i, idx, newIds, addedCount, failedIds, todo,
                 ret, count, budget, emptyQueueCount, limit>>
  /\ UNCHANGED history
  /\ UNCHANGED known
  /\ UNCHANGED <<arrival, started_at, clock>>
  /\ UNCHANGED ackCalls
  /\ processedCount' = [processedCount EXCEPT ![w] = @ + 1]
  /\ UNCHANGED <<qstats, sent, discovery, reachable, storeErrors, signing, failedCount, scraper, chunking, encoder>>

\* ------------------------------------------------------- the store is lost
\* retryStrategy returns null after 3 attempts: the connection is given up
\* and every later command is rejected
StoreGoesDown ==
  /\ reachable
  /\ reachable' = FALSE
  /\ UNCHANGED <<store, locals, history, known, ackCalls, arrival, stats>>
  /\ UNCHANGED <<qstats, sent, discovery, storeErrors, signing, counters, scraper, chunking, encoder>>

\* the frame of a step of a worker whose command was rejected
Rejected(w) ==
  /\ ~reachable
  /\ storeErrors[w] < MaxStoreErrors
  /\ storeErrors' = [storeErrors EXCEPT ![w] = @ + 1]
  /\ UNCHANGED <<store, batch, i, idx, newIds, addedCount, failedIds, todo,
                 ret, count, budget, emptyQueueCount, limit, history>>
  /\ UNCHANGED <<known, ackCalls, arrival, stats>>
  /\ UNCHANGED <<qstats, sent, discovery, reachable, signing, counters, scraper, chunking, encoder>>

\* popListingId throws: the catch of start() logs, waits 5 to 10 s, and the
\* loop goes on
PopListingId_throws(w) ==
  /\ w \in Workers
  /\ pc[w] = "pop"
  /\ Rejected(w)
  /\ UNCHANGED <<pc, cur>>

\* a command of processProperty throws; so does requeueWithRetry in its
\* catch block, and the error reaches the catch of start()
ProcessProperty_throws(w) ==
  /\ w \in Workers
  /\ pc[w] \in {"isProcessed", "markProcessed", "catch", "rq_lpush", "rq_sadd", "rq_hset"}
  /\ Rejected(w)
  /\ pc' = [pc EXCEPT ![w] = "pop"]
  /\ cur' = [cur EXCEPT ![w] = None]

\* ----------------------------------------------- SIGINT / SIGTERM handler
\* worker.stop() sets isRunning = false and awaits queue.close() (QUIT), then
\* the handler calls process.exit(0).  Nothing awaits the processProperty
\* call that is running: commands it sends after QUIT are not executed, so
\* whatever the worker was doing ends here (cur keeps the id for the record)
Stop(w) ==
  /\ w \in Workers
  /\ pc[w] \notin {"stopped", "crashed", "exited"}
  /\ pc' = [pc EXCEPT ![w] = "exited"]
  /\ UNCHANGED <<store, cur, batch, i, idx, newIds, addedCount, failedIds,
                 todo, ret, count, budget, emptyQueueCount, limit, history>>
  /\ UNCHANGED known
  /\ UNCHANGED <<arrival, started_at, clock>>
  /\ UNCHANGED ackCalls
  /\ UNCHANGED extra

\* ------------------------------------------------------------------ crash
\* a process dies between two commands of an operation; what it held in
\* memory is gone (cur keeps the id for the record)
Crash(p) ==
  /\ pc[p] \notin {"idle", "pop", "stopped", "crashed"}
  /\ pc' = [pc EXCEPT ![p] = "crashed"]
  /\ UNCHANGED <<store, cur, batch, i, idx, newIds, addedCount, failedIds,
                 todo, ret, count, budget, emptyQueueCount, limit, history>>
  /\ UNCHANGED known
  /\ UNCHANGED <<arrival, started_at, clock>>
  /\ UNCHANGED ackCalls
  /\ UNCHANGED extra

\* ---------------------------------------------------------- specifications
Enqueue(p) ==
  \/ PushListingIds(p)
  \/ PushListingIds_sadd(p)
  \/ PushListingIds_lpush(p)

Work(w) ==
  \/ PopListingId(w)
  \/ IsProcessed(w)
  \/ Search(w)
  \/ Search_throws(w)
  \/ Catch(w)
  \/ MarkProcessed(w)
  \/ RequeueWithRetry_lpush(w)
  \/ RequeueWithRetry_sadd(w)
  \/ RequeueWithRetry_hset(w)

\* the deployed system: the coordinator (coordinator.ts enqueues with
\* pushListingIds only) and the workers, any of which may crash.  A poll of
\* the empty queue (PopListingId_null) changes nothing but the worker's own
\* emptyQueueCount and is left to the specification of the idle exit.
Coordinator == "c1"
Operator == "c2"

Next ==
  \/ Enqueue(Coordinator)
  \/ \E w \in Workers : Work(w)
  \/ \E p \in Procs : Crash(p)

Spec == Init /\ [][Next]_vars


\* ------------------------------------------------------------------------
\* clients of RedisQueue running concurrently, each calling its methods one
\* after another; any of them may crash in the middle of a method
EnqueueOne(p) ==
  \/ PushListingId(p)
  \/ PushListingId_lpush(p)
  \/ PushListingId_sadd(p)

Requeue(p) ==
  \/ RequeueWithRetry(p)
  \/ RequeueWithRetry_lpush(p)
  \/ RequeueWithRetry_sadd(p)
  \/ RequeueWithRetry_hset(p)

Fail(p) ==
  \/ MarkFailed(p)
  \/ MarkFailed_hset(p)

RetryFailed(p) ==
  \/ RetryFailedListings(p)
  \/ RetryFailedListings_srem(p)
  \/ RetryFailedListings_lpush(p)
  \/ RetryFailedListings_hdel(p)

NextClients ==
  \/ \E p \in Clients : EnqueueOne(p)
  \/ \E p \in Clients : Enqueue(p)
  \/ \E p \in Clients : Requeue(p)
  \/ \E p \in Clients : Fail(p)
  \/ \E p \in Clients : RetryFailed(p)
  \/ \E p \in Clients : Crash(p)

SpecClients == Init /\ [][NextClients]_vars

\* concurrent discovery: several coordinators calling pushListingIds
NextBatch == \E p \in Clients : Enqueue(p)

SpecBatch == Init /\ [][NextBatch]_vars

\* concurrent ack-failure: several clients calling requeueWithRetry
NextRetry == \E p \in Clients : Requeue(p)

InitRetry ==
  /\ InitStore /\ InitLocals /\ InitHistory
  /\ Initialized
  /\ pc = [p \in Procs |-> Home(p)]
  /\ budget = [p \in Procs |-> IF p \in Clients THEN MaxCalls ELSE 0]
  /\ limit \in 0..MaxLimit

SpecRetry == InitRetry /\ [][NextRetry]_vars

\* one client alone, its calls one after another
InitSeq ==
  /\ InitStore /\ InitLocals /\ InitHistory
  /\ Initialized
  /\ pc = [p \in Procs |-> Home(p)]
  /\ budget = [p \in Procs |-> IF p = Coordinator THEN MaxSeqCalls ELSE 0]
  /\ limit = maxRetries

InitSeqRetry ==
  /\ InitStore /\ InitLocals /\ InitHistory
  /\ Initialized
  /\ pc = [p \in Procs |-> Home(p)]
  /\ budget = [p \in Procs |-> IF p = Coordinator THEN MaxSeqCalls ELSE 0]
  /\ limit \in 0..MaxLimit

NextSeq ==
  \/ EnqueueOne(Coordinator)
  \/ Enqueue(Coordinator)

SpecSeq == InitSeq /\ [][NextSeq]_vars

\* the coordinator, the workers and an operator issuing commands
NextOps ==
  \/ Enqueue(Coordinator)
  \/ RetryFailed(Operator)
  \/ Clear(Operator)
  \/ \E w \in Workers : Work(w)

InitOps ==
  /\ InitStore /\ InitLocals /\ InitHistory
  /\ Initialized
  /\ pc = [p \in Procs |-> Home(p)]
  /\ budget = [p \in Procs |-> IF p = Coordinator THEN MaxCalls
                                ELSE IF p = Operator THEN MaxOps ELSE 0]
  /\ limit = maxRetries

SpecOps == InitOps /\ [][NextOps]_vars


\* one client alone, calling requeueWithRetry again and again
NextSeqRetry == Requeue(Coordinator)

SpecSeqRetry == InitSeqRetry /\ [][NextSeqRetry]_vars

\* concurrent pushListingId calls
NextPush == \E p \in Clients : EnqueueOne(p)

SpecPush == Init /\ [][NextPush]_vars

\* concurrent discovery through both enqueue methods
NextEnqueue ==
  \/ \E p \in Clients : EnqueueOne(p)
  \/ \E p \in Clients : Enqueue(p)

SpecEnqueue == Init /\ [][NextEnqueue]_vars


\* ------------------------------------------------------------- properties
\* a worker between popListingId and the end of processProperty
InFlight(w) ==
  pc[w] \in {"isProcessed", "search", "catch", "markProcessed",
             "rq_lpush", "rq_sadd", "rq_hset"}

HeldByLiveWorker(id) == \E w \in Workers : InFlight(w) /\ cur[w] = id

AllIdle == \A p \in Clients : pc[p] = "idle"

\* C1: an id that a worker held when it crashed is not dropped: it is in
\* queue, held by a live worker, in processed or in failed.
C1_CrashedWorkerIdNotLost ==
  \A w \in Workers :
    (pc[w] = "crashed" /\ cur[w] # None) =>
      \/ cur[w] \in Range(queue)
      \/ HeldByLiveWorker(cur[w])
      \/ cur[w] \in processed
      \/ cur[w] \in failed

\* C2: no id is marked processed twice: whenever a worker executes
\* markProcessed(id) in processProperty, id is not yet in processed.
C2_NoDoubleProcessing ==
  [][\A w \in Workers :
       (pc[w] = "markProcessed" /\ pc'[w] = "pop") => cur[w] \notin processed]_vars

\* both workers are in processProperty at once, and one of them is about to
\* mark an id that was delivered again after a failure
C2_Witness ==
  \E w, v \in Workers :
    /\ w # v
    /\ pc[w] = "markProcessed"
    /\ retries[cur[w]] > 0
    /\ pc[v] \in {"search", "markProcessed"}

\* C3: of concurrent pushListingId(id) calls for an unknown id exactly one
\* returns true, and the id is pushed onto queue once.
C3_AtomicTestAndSet ==
  \A id \in Ids : newCount[id] <= 1 /\ pushCount[id] <= 1

\* C4: however often one client enqueues an id (pushListingId or
\* pushListingIds, repeats inside a list included), the id is reported new
\* once and pushed once, and it is in all_ids from then on.
C4_Dedup ==
  \A id \in Ids :
    /\ newCount[id] <= 1
    /\ pushCount[id] <= 1
    /\ Occurrences(queue, id) = pushCount[id]
    /\ pc[Coordinator] = "idle" =>
         /\ (id \in all_ids) = (newCount[id] = 1)
         /\ (id \in all_ids) = (pushCount[id] = 1)

\* the last of the client's calls was a pushListingId of a known id, which
\* returned false, after every id had been enqueued
C4_Witness ==
  /\ budget[Coordinator] = 0
  /\ pc[Coordinator] = "idle"
  /\ ret[Coordinator] = "false"
  /\ \A id \in Ids : id \in all_ids /\ Occurrences(queue, id) = 1

\* C5: pushListingIds returns the number of ids of its list that were not in
\* all_ids before the call and that no concurrent call inserted first; every
\* id is counted new and pushed by exactly one call, and the ids pushed are
\* the ids of all_ids.
C5_BatchCountsNewIds ==
  /\ [](\A id \in Ids :
          /\ newCount[id] <= 1
          /\ pushCount[id] = newCount[id]
          /\ Occurrences(queue, id) = pushCount[id]
          /\ AllIdle => ((id \in all_ids) = (pushCount[id] = 1)))
  /\ [][\A p \in Clients :
          (pc[p] \in {"plis_sadd", "plis_lpush"} /\ pc'[p] = "idle") =>
             count'[p] = Cardinality(Range(batch[p]) \ known[p])]_vars

\* two pushListingIds calls run at once on lists that share an id, and one
\* of them has found the id new while the other has not
C5_Witness ==
  \E p, q \in Clients :
    /\ p # q
    /\ pc[p] = "plis_lpush"
    /\ pc[q] = "plis_sadd"
    /\ \E id \in Range(newIds[p]) : id \in Range(batch[q]) /\ id \in known[q]

\* C6: with no retry entry at the start, after k consecutive
\* requeueWithRetry(id, L) calls the counter is k, min(k, L) calls returned
\* true and pushed the id, and the id is in failed iff k > L.
C6_BoundedRetry ==
  pc[Coordinator] = "idle" =>
    \A id \in Ids :
      /\ retries[id] = rqCalls[id]
      /\ rqTrue[id] = Min(rqCalls[id], limit)
      /\ Occurrences(queue, id) = rqTrue[id]
      /\ (id \in failed) = (rqCalls[id] > limit)

\* limit 3, four calls for one id: three requeues, failed, counter 4
C6_Witness ==
  /\ pc[Coordinator] = "idle"
  /\ limit = maxRetries
  /\ \E id \in Ids :
       /\ retries[id] = maxRetries + 1
       /\ Occurrences(queue, id) = maxRetries
       /\ id \in failed
       /\ ret[Coordinator] = "false"

\* C7: however concurrent requeueWithRetry(id, L) calls interleave, at most
\* L of them return true.
C7_RequeuesWithinLimit ==
  \A id \in Ids : rqTrue[id] <= limit

\* two calls for the same id are under way at once, one within the limit
\* and one past it
C7_Witness ==
  \E p, q \in Clients :
    /\ pc[p] = "rq_lpush"
    /\ pc[q] = "rq_sadd"
    /\ cur[p] = cur[q]
    /\ limit > 0

\* an id in all_ids that no enqueue pushed and no running enqueue will push
NeverQueued(id) ==
  /\ id \in all_ids
  /\ pushCount[id] = 0
  /\ ~ \E p \in Procs : /\ pc[p] \in {"plis_sadd", "plis_lpush"}
                        /\ id \in Range(newIds[p])

\* a retry counter incremented for a call that neither requeued the id nor
\* failed it, and that is no longer running
RetryLost(id) ==
  /\ retries[id] > rqTrue[id]
  /\ id \notin failed
  /\ ~ \E p \in Procs : /\ pc[p] \in {"rq_lpush", "rq_sadd", "rq_hset",
                                      "rf_srem", "rf_lpush", "rf_hdel"}
                        /\ cur[p] = id

\* C8: a crash between two commands of an operation leaves no partial
\* state: no id in all_ids that was never queued, no retry counter
\* incremented with the id neither requeued nor failed.
C8_NoPartialState ==
  (\E p \in Procs : pc[p] = "crashed") =>
     \A id \in Ids : ~ NeverQueued(id) /\ ~ RetryLost(id)

\* C9: every id in queue is a member of all_ids, in every state.
C9_QueuedIdsAreKnown == Range(queue) \subseteq all_ids

\* a command of a RedisQueue method is still to be sent
QueueOpInProgress(p) ==
  pc[p] \in {"pli_lpush", "pli_sadd", "plis_sadd", "plis_lpush", "rq_lpush",
             "rq_sadd", "rq_hset", "mf_hset", "rf_srem", "rf_lpush", "rf_hdel"}

\* C10: when no queue operation is in progress, no id is in both processed
\* and failed.
C10_ProcessedFailedExclusive ==
  (\A p \in Procs : ~ QueueOpInProgress(p)) => processed \cap failed = {}

\* recovery: the coordinator has enqueued, the workers drain the queue, and
\* clients call retryFailedListings, possibly at the same time
NextRecover ==
  \/ Enqueue(Coordinator)
  \/ \E w \in Workers : Work(w)
  \/ \E p \in Clients : RetryFailed(p)

\* the state the deployed system is in after the coordinator has discovered
\* one id and every attempt of the workers to process it has failed
InitRecover ==
  /\ InitQueueExtra /\ InitSigning /\ InitProcLocals
  /\ scraper = NoScrape(CoordinatorMaxResults, CoordinatorPageSize)
  /\ chunking = WholeLists
  /\ encoder = NoInput
  /\ Initialized
  /\ processedCount = [p \in Procs |-> 0]
  /\ \E w \in Workers : failedCount = [p \in Procs |-> IF p = w THEN 1 ELSE 0]
  /\ \E id \in Ids :
       /\ queue = <<>>
       /\ arrival = <<>>
       /\ ackCalls = [x \in Ids |-> 0]
       /\ all_ids = {id}
       /\ processed = {}
       /\ failed = {id}
       /\ failedErrors = {id}
       /\ retries = [x \in Ids |-> IF x = id THEN maxRetries + 1 ELSE 0]
       /\ newCount = [x \in Ids |-> IF x = id THEN 1 ELSE 0]
       /\ pushCount = [x \in Ids |-> IF x = id THEN 1 ELSE 0]
       /\ rqCalls = [x \in Ids |-> IF x = id THEN maxRetries + 1 ELSE 0]
       /\ rqTrue = [x \in Ids |-> IF x = id THEN maxRetries ELSE 0]
  /\ known = [p \in Procs |-> {}]
  /\ pc = [p \in Procs |-> Home(p)]
  /\ budget = [p \in Procs |-> IF p \in Clients THEN MaxOps ELSE 0]
  /\ limit = maxRetries

SpecRecover == InitRecover /\ [][NextRecover]_vars

\* start-up on a fresh namespace: every process calls initialize(), once for
\* the RedisQueue it works with and once for the second RedisQueue its
\* main() opens for the final statistics
InitStartup ==
  /\ InitStore /\ InitLocals /\ InitHistory
  /\ started_at = 0
  /\ clock = 1
  /\ pc = [p \in Procs |-> "init"]
  /\ budget = [p \in Procs |-> MaxCalls]
  /\ limit = maxRetries

NextStartup ==
  \/ \E p \in Procs : Initialize(p) \/ Initialize_hset(p)
  \/ Tick

SpecStartup == InitStartup /\ [][NextStartup]_vars

\* the deployed system with workers that are interrupted by a signal
NextShutdown ==
  \/ Enqueue(Coordinator)
  \/ \E w \in Workers : Work(w) \/ Stop(w)

SpecShutdown == Init /\ [][NextShutdown]_vars

\* the deployed system in which no process crashes, a worker may be stopped
\* by a signal as long as another worker keeps running, and every running
\* process goes on with its program: the reply of each command arrives
Running(w) == pc[w] \notin {"stopped", "crashed", "exited"}

StopOne(w) ==
  /\ \E v \in Workers \ {w} : Running(v)
  /\ Stop(w)

NextDrain ==
  \/ Enqueue(Coordinator)
  \/ \E w \in Workers : Work(w) \/ StopOne(w)

FairDrain ==
  /\ WF_vars(Enqueue(Coordinator))
  /\ \A w \in Workers : WF_vars(Work(w))

SpecDrain == Init /\ [][NextDrain]_vars /\ FairDrain

\* one client alone, calling the methods of RedisQueue one after another
Ack(p) == \E id \in Ids : MarkProcessed_call(p, id)

NextQueue ==
  \/ EnqueueOne(Coordinator)
  \/ Enqueue(Coordinator)
  \/ Requeue(Coordinator)
  \/ Fail(Coordinator)
  \/ Ack(Coordinator)
  \/ RetryFailed(Coordinator)
  \/ Clear(Coordinator)

SpecQueue == InitSeqRetry /\ [][NextQueue]_vars

\* the coordinator and the workers, which poll the queue until they have
\* found it empty maxEmptyChecks times in a row
NextPoll ==
  \/ Enqueue(Coordinator)
  \/ \E w \in Workers : Work(w) \/ PopListingId_null(w)

SpecPoll == Init /\ [][NextPoll]_vars

\* one client alone that fills the namespace and reads the statistics
Stats(p) ==
  \/ GetStats(p)
  \/ GetStats_all(p)
  \/ GetStats_processed(p)
  \/ GetStats_failed(p)
  \/ GetStats_hget(p)

NextStats ==
  \/ Enqueue(Coordinator)
  \/ Fail(Coordinator)
  \/ Ack(Coordinator)
  \/ Clear(Coordinator)
  \/ Stats(Coordinator)

SpecStats == InitSeq /\ [][NextStats]_vars

\* one pass of the coordinator: every process step is taken sooner or later
InitDiscover ==
  /\ InitStore /\ InitLocals /\ InitHistory
  /\ Initialized
  /\ pc = [p \in Procs |-> Home(p)]
  /\ budget = [p \in Procs |-> 0]
  /\ limit = maxRetries

NextDiscover ==
  \/ DiscoverProperties(Coordinator)
  \/ Enqueue(Coordinator)
  \/ DiscoverProperties_pushThrows(Coordinator)
  \/ DiscoverProperties_return(Coordinator)
  \/ DiscoverAllCities_done(Coordinator)

SpecDiscover == InitDiscover /\ [][NextDiscover]_vars /\ WF_vars(NextDiscover)

\* the deployed system whose store is lost for good at some moment
NextOutage ==
  \/ reachable /\ Enqueue(Coordinator)
  \/ \E w \in Workers : reachable /\ Work(w)
  \/ StoreGoesDown
  \/ \E w \in Workers : ~reachable /\ (Search(w) \/ Search_throws(w))
  \/ \E w \in Workers : PopListingId_throws(w) \/ ProcessProperty_throws(w)

SpecOutage == Init /\ [][NextOutage]_vars

\* ------------------------------------------------------------------------
\* a worker receives an id from popListingId in this step
Pops(w) == pc[w] = "pop" /\ pc'[w] = "isProcessed"

\* C11: popListingId hands out ids in the order of the pushes that put them
\* into queue: the id a worker receives is the one pushed earliest among the
\* ids waiting, so an id pushed later (a later argument of the same
\* pushListingIds call, or a requeued id) comes after every id that was
\* waiting when it was pushed.
C11_Fifo ==
  [][\A w \in Workers :
       Pops(w) => arrival # <<>> /\ cur'[w] = Head(arrival)]_vars

\* a worker has just received a fresh id while an id that was requeued in
\* the meantime waits behind it
C11_Witness ==
  \E w \in Workers :
    /\ pc[w] = "isProcessed"
    /\ retries[cur[w]] = 0
    /\ queue # <<>>
    /\ retries[Head(queue)] > 0

\* a requeue of a failed attempt or a move out of failed is running
RetryRequeueInProgress ==
  \E p \in Procs :
    pc[p] \in {"catch", "rq_lpush", "rq_sadd", "rq_hset", "rf_srem", "rf_lpush", "rf_hdel"}

\* C12: whenever no retry-requeue is in progress, each id occurs at most
\* once in queue, whatever the interleaving of enqueue calls, worker loops
\* and retryFailedListings calls.
C12_AtMostOnceInQueue ==
  ~RetryRequeueInProgress => \A id \in Ids : Occurrences(queue, id) <= 1

\* C13: stats.started_at is written once: after an initialize() has set it,
\* no later or concurrently running initialize() of any process changes it.
C13_StartedAtWrittenOnce ==
  [][started_at # 0 => started_at' = started_at]_vars

\* C14: a worker that shuts down on a signal lets the item it holds receive
\* its ack (markProcessed or requeueWithRetry) before it closes the
\* connection and exits: no worker has exited with an id still in flight.
C14_ShutdownAcksInFlight ==
  \A w \in Workers : pc[w] = "exited" => cur[w] = None

\* C15: every id the coordinator enqueued is eventually a member of
\* processed or of failed, provided a worker keeps running and no process
\* crashes.
C15_EventuallyProcessedOrFailed ==
  \A id \in Ids : (pushCount[id] > 0) ~> (id \in processed \cup failed)

\* C16: a permanently failed id is never retried automatically: an id that
\* requeueWithRetry has put into failed is not in queue, no worker holds it
\* (but the one that is finishing that requeueWithRetry call), and no worker
\* receives it from popListingId.
C16_FailedNotRetried ==
  /\ [](\A id \in failed :
          /\ id \notin Range(queue)
          /\ \A w \in Workers : InFlight(w) /\ cur[w] = id => pc[w] = "rq_hset")
  /\ [][\A w \in Workers : Pops(w) => cur'[w] \notin failed]_vars

\* an id has failed for good, the coordinator discovers it again (the reply
\* of its SADD was 0) and both workers are waiting for work
C16_Witness ==
  /\ pc[Coordinator] = "plis_sadd"
  /\ idx[Coordinator] = 1
  /\ newIds[Coordinator] = <<>>
  /\ batch[Coordinator][1] \in failed
  /\ \A w \in Workers : pc[w] = "pop"

\* C17: a markProcessed(id) call for an id that is already in processed
\* leaves processed and every other key of the namespace as they were.
C17_IdempotentAck ==
  [][\A p \in Clients, id \in Ids :
       MarkProcessed_call(p, id) /\ id \in processed
         => UNCHANGED <<store, started_at>>]_vars

\* markProcessed has been called twice for an id that was requeued and is
\* still in queue
C17_Witness ==
  \E id \in processed :
    /\ ackCalls[id] = 2
    /\ retries[id] > 0
    /\ id \in Range(queue)

\* process p is inside a retryFailedListings call
Retrying(p) == pc[p] \in {"rf_srem", "rf_lpush", "rf_hdel"}

\* the entries of q but its n newest
Older(q, n) == SubSeq(q, n + 1, Len(q))

\* C18: retryFailedListings() removes every id that is in failed from
\* failed, pushes each of them onto queue once, deletes its retry counter
\* and returns the number of ids moved.  With no concurrent operation,
\* failed is empty when the call returns, the n newest entries of queue are
\* the n ids moved, and no step of the call touches an older entry of queue,
\* the counter of another id or another key.  With nothing in failed the
\* call returns 0 and changes no key.
C18_RetryFailedListings ==
  [][\A p \in Clients :
       /\ pc[p] = "rf_hdel" /\ pc'[p] = "idle" =>
            LET n == Cardinality(failedIds[p])
            IN /\ count'[p] = n
               /\ failed' = {}
               /\ Len(queue') >= n
               /\ \A id \in failedIds[p] :
                     /\ retries'[id] = 0
                     /\ Occurrences(SubSeq(queue', 1, n), id) = 1
       /\ Retrying(p) =>
            /\ Older(queue', Len(queue') - Len(queue)) = queue
            /\ Len(queue') - Len(queue) \in {0, 1}
            /\ \A id \in Ids \ failedIds[p] :
                  /\ retries'[id] = retries[id]
                  /\ Occurrences(queue', id) = Occurrences(queue, id)
                  /\ id \notin failed'
            /\ UNCHANGED <<all_ids, processed, failedErrors, started_at>>
       /\ RetryFailedListings(p) /\ failed = {} =>
            count'[p] = 0 /\ UNCHANGED <<store, started_at>>]_vars

\* the call is about to delete the retry counter of the last of two failed
\* ids, one of which failed by exhausting its retries
C18_Witness ==
  \E p \in Clients :
    /\ pc[p] = "rf_hdel"
    /\ todo[p] = {cur[p]}
    /\ Cardinality(failedIds[p]) = 2
    /\ retries[cur[p]] > 0
    /\ failed = {}
    /\ \A id \in failedIds[p] : id \in Range(queue)

\* C19: after clear() every piece of state of the namespace is empty:
\* queue, all_ids, processed, failed, retries, stats, and the failure
\* reasons markFailed recorded.
C19_ClearEmptiesEverything ==
  [][(\E p \in Clients : Clear(p)) =>
       /\ queue' = <<>>
       /\ all_ids' = {}
       /\ processed' = {}
       /\ failed' = {}
       /\ \A id \in Ids : retries'[id] = 0
       /\ started_at' = 0
       /\ failedErrors' = {}]_vars

\* popListingId returns null to worker w in this step
PopsNull(w) ==
  pc[w] = "pop" /\ emptyQueueCount'[w] = emptyQueueCount[w] + 1

\* C20: popListingId on an empty queue returns null and changes no state;
\* on a non-empty queue it returns the oldest entry and removes exactly that
\* one entry, and an entry goes to one worker only: the step that hands it to
\* w takes it out of queue and gives nothing to another worker.
C20_PopListingId ==
  [][\A w \in Workers :
       /\ PopsNull(w) =>
            /\ queue = <<>>
            /\ cur'[w] = None
            /\ UNCHANGED <<store, started_at>>
       /\ Pops(w) =>
            /\ queue # <<>>
            /\ cur'[w] = Head(arrival)
            /\ Len(queue') = Len(queue) - 1
            /\ \A id \in Ids :
                  Occurrences(queue', id) =
                    Occurrences(queue, id) - (IF id = cur'[w] THEN 1 ELSE 0)
            /\ \A v \in Workers \ {w} : cur'[v] = cur[v] /\ pc'[v] = pc[v]
            /\ UNCHANGED <<all_ids, processed, failed, failedErrors, retries,
                           started_at>>]_vars

\* one worker has received the only entry, the other has polled the empty
\* queue and got null
C20_Witness ==
  \E w, v \in Workers :
    /\ pc[w] = "isProcessed"
    /\ cur[w] # None
    /\ pc[v] = "pop"
    /\ emptyQueueCount[v] > 0
    /\ queue = <<>>

\* process p is inside a getStats call
ReadingStats(p) == pc[p] \in {"gs_all", "gs_processed", "gs_failed", "gs_hget"}

\* C21: getStats() returns queueDepth = the length of queue, totalDiscovered
\* = |all_ids|, processedCount = |processed|, failedCount = |failed| and the
\* stored started_at; no step of it modifies a key; called first on the
\* fresh namespace after initialize() it returns 0, 0, 0, 0 with startedAt
\* set.
C21_GetStats ==
  /\ [][\A p \in Clients :
          /\ pc[p] = "gs_hget" /\ pc'[p] = "idle" =>
               /\ qstats'[p].queueDepth = Len(queue)
               /\ qstats'[p].totalDiscovered = Cardinality(all_ids)
               /\ qstats'[p].processedCount = Cardinality(processed)
               /\ qstats'[p].failedCount = Cardinality(failed)
               /\ qstats'[p].startedAt # Undefined => qstats'[p].startedAt = started_at
               /\ qstats'[p].startedAt = Undefined => started_at = 0
          /\ ReadingStats(p) \/ ReadingStats(p)' => UNCHANGED <<store, started_at>>]_vars
  /\ [](\A p \in Clients :
          pc[p] = "idle" /\ budget[p] = MaxSeqCalls - 1 /\ qstats[p] # NoStats =>
            /\ qstats[p].queueDepth = 0
            /\ qstats[p].totalDiscovered = 0
            /\ qstats[p].processedCount = 0
            /\ qstats[p].failedCount = 0
            /\ qstats[p].startedAt # Undefined)

\* getStats has returned on a namespace with entries in queue, in processed
\* and in failed
C21_Witness ==
  \E p \in Clients :
    /\ pc[p] = "idle"
    /\ qstats[p].queueDepth = 2
    /\ qstats[p].processedCount = 1
    /\ qstats[p].failedCount = 1

\* C22: a worker marks an id processed only after the data of that id has
\* been sent to the Core Service: every member of processed has been sent.
C22_SentBeforeProcessed == processed \subseteq sent

\* the ids pushListingIds calls have reported as new
ReportedNew == newCount["a"] + newCount["b"]

\* C23: discoverAllCities invokes discoverProperties for every combination
\* whatever failed before: a failing combination adds 0 to totalNewIds and
\* the loop goes on with the next one, the pass comes to its end, and at the
\* end every combination has been invoked and totalNewIds is the sum of what
\* the calls that returned have reported.
C23_FailureIsolation ==
  /\ [](discovery.phase = "done" =>
          /\ discovery.invoked = 1..NumCombinations
          /\ discovery.k = NumCombinations)
  /\ [](discovery.phase = "scrape" => discovery.totalNewIds = ReportedNew)
  /\ [][discovery'.k # discovery.k =>
          /\ discovery'.k = discovery.k + 1
          /\ discovery'.invoked = 1..discovery'.k
          /\ discovery'.phase = "scrape"]_vars
  /\ <>(discovery.phase = "done")

\* the pass has come to its end although a combination has failed: fewer
\* ids were counted than are known
C23_Witness ==
  /\ discovery.phase = "done"
  /\ discovery.totalNewIds < Cardinality(all_ids)

\* C24: losing the store for good is fatal to the process: a worker whose
\* command was rejected stops, it does not go round its loop and have a
\* second command rejected.
C24_StoreFailureIsFatal ==
  \A w \in Workers : storeErrors[w] <= 1
\* ===================================================== the request signer
\* the characters of the model's alphabet that encodeURIComponent escapes
Escaped == {":", "/", "?", "=", "&", "%", ";", ",", " ", "+", "\""}

\* the two hex digits of a character's code
Hex(c) ==
  CASE c = ":" -> <<"3", "A">> [] c = "/" -> <<"2", "F">> [] c = "?" -> <<"3", "F">>
    [] c = "=" -> <<"3", "D">> [] c = "&" -> <<"2", "6">> [] c = "%" -> <<"2", "5">>
    [] c = ";" -> <<"3", "B">> [] c = "," -> <<"2", "C">> [] c = " " -> <<"2", "0">>
    [] c = "+" -> <<"2", "B">> [] c = "\"" -> <<"2", "2">>
    [] c = "!" -> <<"2", "1">> [] c = "'" -> <<"2", "7">> [] c = "(" -> <<"2", "8">>
    [] c = ")" -> <<"2", "9">> [] c = "*" -> <<"2", "A">>

\* encodeURIComponent: everything but letters, digits and - _ . ! ~ * ' ( )
\* becomes % and two hex digits
RECURSIVE encodeURIComponent(_)
encodeURIComponent(str) ==
  IF str = <<>> THEN <<>>
  ELSE (IF Head(str) \in Escaped THEN <<"%">> \o Hex(Head(str)) ELSE <<Head(str)>>)
       \o encodeURIComponent(Tail(str))

\* str.replace(/c/g, '%XX')
RECURSIVE Replace(_, _)
Replace(str, c) ==
  IF str = <<>> THEN <<>>
  ELSE (IF Head(str) = c THEN <<"%">> \o Hex(c) ELSE <<Head(str)>>) \o Replace(Tail(str), c)

\* faulty variant: the asterisk is left as encodeURIComponent leaves it
percentEncode_NoStar(str) ==
  Replace(Replace(Replace(Replace(encodeURIComponent(str), "!"), "'"), "("), ")")

percentEncode(str) ==
  Replace(Replace(Replace(Replace(Replace(encodeURIComponent(str), "!"), "'"), "("), ")"), "*")

\* parts.join(sep)
RECURSIVE Join(_, _)
Join(parts, sep) ==
  IF parts = <<>> THEN <<>>
  ELSE IF Len(parts) = 1 THEN Head(parts)
  ELSE Head(parts) \o sep \o Join(Tail(parts), sep)

\* method.toUpperCase()
ToUpperCase(method) ==
  CASE method = "get" -> "GET" [] method = "post" -> "POST" [] OTHER -> method

\* the keys a parameter object can have, in the order Array.prototype.sort
\* puts them (by UTF-16 code units)
KeyOrder ==
  <<"geocodes", "oauth_consumer_key", "oauth_nonce", "oauth_signature_method",
    "oauth_timestamp", "oauth_token", "oauth_version", "realestatetype">>

\* Object.keys(o).sort()
SortedKeys(o) == SelectSeq(KeyOrder, LAMBDA k : k \in DOMAIN o)

\* the keys of oauthParams in insertion order, which Object.entries follows
AuthOrder ==
  <<"oauth_consumer_key", "oauth_token", "oauth_signature_method",
    "oauth_timestamp", "oauth_nonce", "oauth_version">>

\* new OAuth1Signer(consumerKey, consumerSecret, accessToken, accessSecret)
OAuth1Signer(ck, cs, at, as) ==
  [present |-> TRUE, consumerKey |-> ck, consumerSecret |-> cs,
   accessToken |-> at, accessSecret |-> as]

OAuthParams(signer, timestamp, nonce) ==
  [oauth_consumer_key |-> signer.consumerKey,
   oauth_token |-> signer.accessToken,
   oauth_signature_method |-> <<"HMAC-SHA1">>,
   oauth_timestamp |-> timestamp,
   oauth_nonce |-> nonce,
   oauth_version |-> <<"1.0">>]

\* faulty variant: the request parameters are left out of what is signed
AllParams_OAuthOnly(oauthParams, params) == oauthParams

\* { ...oauthParams, ...params }: a request parameter wins over an OAuth
\* parameter of the same name
AllParams(oauthParams, params) == params @@ oauthParams

SortedParams(allParams) ==
  LET keys == SortedKeys(allParams)
  IN Join([k \in 1..Len(keys) |->
             percentEncode(<<keys[k]>>) \o <<"=">> \o percentEncode(allParams[keys[k]])],
          <<"&">>)

BaseString(method, url, sortedParams) ==
  Join(<<(<<ToUpperCase(method)>>), percentEncode(url), percentEncode(sortedParams)>>, <<"&">>)

SigningKey(signer) ==
  percentEncode(signer.consumerSecret) \o <<"&">> \o percentEncode(signer.accessSecret)

\* crypto.createHmac('sha1', key).update(msg).digest('base64'): the digest
\* stands for itself, two digests are equal exactly when key and message are.
\* Its base64 text and the percent-encoding of that text are one-to-one, so
\* the header carries the digest
HmacSha1(key, msg) == [alg |-> "HMAC-SHA1", key |-> key, msg |-> msg]

\* the header value: the text up to the signature, and the signature
generateAuthHeader(signer, method, url, params, timestamp, nonce) ==
  LET oauthParams == OAuthParams(signer, timestamp, nonce)
      allParams == AllParams(oauthParams, params)
      baseString == BaseString(method, url, SortedParams(allParams))
      signature == HmacSha1(SigningKey(signer), baseString)
      authParams ==
        Join([k \in 1..Len(AuthOrder) |->
                <<AuthOrder[k], "=", "\"">> \o percentEncode(oauthParams[AuthOrder[k]])
                \o <<"\"">>],
             <<",">>)
  IN [text |-> <<"OAuth", " ">> \o authParams \o <<",", "oauth_signature", "=">>,
      oauth_signature |-> signature]

\* ---- the inputs of the signer's specification
MaxSigned == 3

\* Math.floor(Date.now() / 1000).toString()
Timestamps == {<<"1700000000">>}
\* generateNonce(): what Math.random gives
Nonces == {<<"k3j9x0a1q">>, <<"z8w2m4p7c">>}

Signers ==
  {OAuth1Signer(<<"ck">>, <<"cs">>, <<"at">>, as) : as \in {<<"as">>, <<"a", "&", "s">>}}

ParamKeys == {"geocodes", "oauth_nonce"}
ParamValues ==
  [geocodes |-> {<<"1276003001">>, <<"1276", "&", "x", "=", "!">>},
   oauth_nonce |-> {<<"z8w2m4p7c">>}]
\* the params objects: any of the keys, each with one of its values
ParamsSet ==
  UNION {{f \in [K -> UNION {ParamValues[k] : k \in ParamKeys}] :
            \A k \in K : f[k] \in ParamValues[k]} : K \in SUBSET ParamKeys}

baseUrl ==
  <<"https", ":", "/", "/", "rest.immobilienscout24.de", "/", "restapi", "/", "api">>

SignedUrls ==
  {baseUrl \o <<"/", "expose", "/", "v1.0", "/", "exposes", "/", id>> : id \in Ids}

\* one generateAuthHeader call, with the clock and the random source as inputs
GenerateAuthHeader ==
  /\ Len(signed) < MaxSigned
  /\ \E signer \in Signers, url \in SignedUrls, params \in ParamsSet,
        timestamp \in Timestamps, nonce \in Nonces :
       signed' = Append(signed,
         [signer |-> signer, method |-> "get", url |-> url, params |-> params,
          timestamp |-> timestamp, nonce |-> nonce,
          header |-> generateAuthHeader(signer, "get", url, params, timestamp, nonce)])
  /\ UNCHANGED <<store, locals, history, known, ackCalls, arrival, stats>>
  /\ UNCHANGED <<qstats, sent, discovery, reachable, storeErrors, env, apiClient, wire, counters, scraper, chunking, encoder>>

NextSigner == GenerateAuthHeader
SpecSigner == Init /\ [][NextSigner]_vars

\* ====================================================== the REST API client
MaxRequests == 2

\* what JavaScript takes for true in a condition: undefined and '' are not
Truthy(v) == v.set /\ v.value # <<>>

\* faulty variant: a signer is made as soon as one credential is there
IS24RestApiClient_AnyField(consumerKey, consumerSecret, accessToken, accessSecret) ==
  [constructed |-> TRUE,
   signer |-> IF \/ Truthy(consumerKey) \/ Truthy(consumerSecret)
                 \/ Truthy(accessToken) \/ Truthy(accessSecret)
              THEN OAuth1Signer(consumerKey.value, consumerSecret.value,
                                accessToken.value, accessSecret.value)
              ELSE NoSigner,
   threw |-> FALSE]

\* new IS24RestApiClient(...): no statement of the constructor throws
IS24RestApiClient(consumerKey, consumerSecret, accessToken, accessSecret) ==
  [constructed |-> TRUE,
   signer |-> IF /\ Truthy(consumerKey) /\ Truthy(consumerSecret)
                 /\ Truthy(accessToken) /\ Truthy(accessSecret)
              THEN OAuth1Signer(consumerKey.value, consumerSecret.value,
                                accessToken.value, accessSecret.value)
              ELSE NoSigner,
   threw |-> FALSE]

\* the values an environment variable can have: unset, empty, or a string
EnvValues(f) == {NoString, Str(<<>>), Str(<<f>>)}

\* the headers axios.create sets; no Authorization
DefaultHeaders ==
  [UserAgent |-> <<"ImmobilienScout24APIClient", "/", "1.0">>,
   Accept |-> <<"application", "/", "json">>,
   Authorization |-> NoString]

\* this.client.get(url): the request config handed to the interceptors
Get(url) ==
  [method |-> "get", url |-> url, params |-> [set |-> FALSE], headers |-> DefaultHeaders]

\* a params object without keys
EmptyParams == [k \in {} |-> <<>>]

\* the request interceptor; the header value is kept as generateAuthHeader
\* returned it
Interceptor(client, config, timestamp, nonce) ==
  IF client.signer.present /\ config.url # <<>>
  THEN LET params == IF config.params.set THEN config.params.value ELSE EmptyParams
       IN [config EXCEPT
             !.params = [set |-> TRUE, value |-> params],
             !.headers.Authorization =
               Str(generateAuthHeader(client.signer, ToUpperCase(config.method),
                                      baseUrl \o config.url, params, timestamp, nonce))]
  ELSE config

\* URLSearchParams.toString() on one value: a space becomes +, the other
\* reserved characters % and two hex digits
RECURSIVE FormEncode(_)
FormEncode(str) ==
  IF str = <<>> THEN <<>>
  ELSE (IF Head(str) = " " THEN <<"+">>
        ELSE IF Head(str) \in Escaped \cup {"!", "'", "(", ")"} THEN <<"%">> \o Hex(Head(str))
        ELSE <<Head(str)>>)
       \o FormEncode(Tail(str))

\* the search parameters: realestatetype always, geocodes and geocoordinates
\* optional
SearchParams ==
  [realestatetype : {Str(<<"apartmentrent">>)},
   geocodes : {NoString, Str(<<"1276003001">>)},
   geocoordinates : {NoString, Str(<<"52.5", ";", "13.4", ";", "10">>)}]

\* search(): the url of the request
SearchUrl(params) ==
  LET pairs == <<(<<"realestatetype", "=">>) \o FormEncode(params.realestatetype.value)>>
               \o (IF Truthy(params.geocodes)
                   THEN <<(<<"geocodes", "=">>) \o FormEncode(params.geocodes.value)>>
                   ELSE <<>>)
               \o (IF Truthy(params.geocoordinates)
                   THEN <<(<<"geocoordinates", "=">>) \o FormEncode(params.geocoordinates.value)>>
                   ELSE <<>>)
      endpoint == IF Truthy(params.geocoordinates)
                  THEN <<"/", "search", "/", "v1.0", "/", "search", "/", "radius">>
                  ELSE <<"/", "search", "/", "v1.0", "/", "search", "/", "region">>
  IN endpoint \o <<"?">> \o Join(pairs, <<"&">>)

\* getExpose(): the url of the request
ExposeUrl(exposeId) == <<"/", "expose", "/", "v1.0", "/", "exposes", "/", exposeId>>

\* IS24RestApiClient.fromEnv(): logs a warning when a variable is missing and
\* constructs the client all the same
FromEnv ==
  /\ ~apiClient.constructed
  /\ apiClient' = IS24RestApiClient(env["consumerKey"], env["consumerSecret"],
                                    env["accessToken"], env["accessSecret"])
  /\ UNCHANGED <<store, locals, history, known, ackCalls, arrival, stats>>
  /\ UNCHANGED <<qstats, sent, discovery, reachable, storeErrors, env, wire, signed, counters, scraper, chunking, encoder>>

\* one request of the client: the interceptor runs, then the transport gets
\* the config
Request(url) ==
  /\ apiClient.constructed
  /\ Len(wire) < MaxRequests
  /\ Len(signed) < MaxSigned
  /\ \E timestamp \in Timestamps, nonce \in Nonces :
       LET config == Interceptor(apiClient, Get(url), timestamp, nonce)
       IN /\ wire' = Append(wire, config)
          /\ signed' =
               IF apiClient.signer.present /\ url # <<>>
               THEN Append(signed,
                      [signer |-> apiClient.signer, method |-> "GET",
                       url |-> baseUrl \o url, params |-> EmptyParams,
                       timestamp |-> timestamp, nonce |-> nonce,
                       header |-> config.headers.Authorization.value])
               ELSE signed
  /\ UNCHANGED <<store, locals, history, known, ackCalls, arrival, stats>>
  /\ UNCHANGED <<qstats, sent, discovery, reachable, storeErrors, env, apiClient, counters, scraper, chunking, encoder>>

ApiSearch == \E params \in SearchParams : Request(SearchUrl(params))

GetExpose == \E exposeId \in Ids : Request(ExposeUrl(exposeId))

\* the process environment is whatever the operator has set
InitApi ==
  /\ InitStore /\ InitHistory /\ Initialized
  /\ InitQueueExtra /\ InitProcLocals
  /\ pc = [p \in Procs |-> Home(p)]
  /\ budget = [p \in Procs |-> 0]
  /\ limit = maxRetries
  /\ env \in {e \in [CredentialFields -> UNION {EnvValues(f) : f \in CredentialFields}] :
                \A f \in CredentialFields : e[f] \in EnvValues(f)}
  /\ apiClient = NoClient
  /\ wire = <<>>
  /\ signed = <<>>
  /\ InitCounters
  /\ scraper = NoScrape(CoordinatorMaxResults, CoordinatorPageSize)
  /\ chunking = WholeLists
  /\ encoder = NoInput

NextApi == FromEnv \/ ApiSearch \/ GetExpose
SpecApi == InitApi /\ [][NextApi]_vars

\* the four credential fields are all there
AllPresent == \A f \in CredentialFields : env[f].set /\ env[f].value # <<>>

\* C25: the constructed client has a signer exactly when all four credential
\* fields are there (an empty string counts as missing), the signer holds the
\* four values, and construction raised no error; with a field missing every
\* request on the wire has no Authorization header, with all four every
\* request carries the header generateAuthHeader returned for GET and the
\* full url of that request under these credentials
C25_BinarySigning ==
  /\ apiClient.constructed =>
       /\ apiClient.signer.present <=> AllPresent
       /\ ~apiClient.threw
       /\ AllPresent =>
            apiClient.signer = OAuth1Signer(env["consumerKey"].value, env["consumerSecret"].value,
                                            env["accessToken"].value, env["accessSecret"].value)
  /\ \A k \in 1..Len(wire) :
       IF AllPresent
       THEN /\ wire[k].headers.Authorization.set
            /\ \E j \in 1..Len(signed) :
                 /\ signed[j].header = wire[k].headers.Authorization.value
                 /\ signed[j].url = baseUrl \o wire[k].url
                 /\ signed[j].method = "GET"
                 /\ signed[j].signer = apiClient.signer
                 /\ signed[j].header =
                      generateAuthHeader(signed[j].signer, "GET", signed[j].url, EmptyParams,
                                         signed[j].timestamp, signed[j].nonce)
       ELSE ~wire[k].headers.Authorization.set

\* some credentials are there, one is missing, and a search and a detail
\* request have gone out unsigned
C25_Witness ==
  /\ apiClient.constructed
  /\ \E f, g \in CredentialFields : Truthy(env[f]) /\ ~Truthy(env[g])
  /\ Len(wire) = 2
  /\ \E k, j \in 1..2 : wire[k].url[2] = "search" /\ wire[j].url[2] = "expose"
  /\ \A k \in 1..2 : ~wire[k].headers.Authorization.set

\* two generateAuthHeader calls with the same method, url, params and
\* credential, at the same timestamp and nonce
SameInputs(c, d) ==
  /\ c.signer = d.signer /\ c.method = d.method /\ c.url = d.url
  /\ c.timestamp = d.timestamp /\ c.nonce = d.nonce
  /\ c.params = d.params

\* two calls that differ in the value of exactly one request parameter
OneValueChanged(c, d) ==
  /\ c.signer = d.signer /\ c.method = d.method /\ c.url = d.url
  /\ c.timestamp = d.timestamp /\ c.nonce = d.nonce
  /\ DOMAIN c.params = DOMAIN d.params
  /\ Cardinality({k \in DOMAIN c.params : c.params[k] # d.params[k]}) = 1

FairPoll == \A w \in Workers : WF_vars(Work(w) \/ PopListingId_null(w))

\* the coordinator has MaxOps batches to enqueue
InitIdle ==
  /\ InitStore /\ InitLocals /\ InitHistory
  /\ Initialized
  /\ pc = [p \in Procs |-> Home(p)]
  /\ budget = [p \in Procs |-> IF p = Coordinator THEN MaxOps ELSE 0]
  /\ limit = maxRetries

SpecIdle == InitIdle /\ [][NextPoll]_vars /\ FairPoll

\* C27: a running worker stops unless the queue gets an id; it leaves the
\* loop on an empty popListingId result that brings emptyQueueCount to
\* maxEmptyChecks, and a worker whose count has reached maxEmptyChecks has
\* stopped
C27_BoundedIdleExit ==
  /\ \A w \in Workers : Running(w) ~> (queue # <<>> \/ pc[w] = "stopped")
  /\ [][\A w \in Workers :
          (pc[w] # "stopped" /\ pc'[w] = "stopped") =>
            /\ pc[w] = "pop" /\ queue = <<>>
            /\ emptyQueueCount[w] = maxEmptyChecks - 1
            /\ emptyQueueCount'[w] = maxEmptyChecks]_vars
  /\ [](\A w \in Workers : emptyQueueCount[w] >= maxEmptyChecks => pc[w] = "stopped")

\* both workers have stopped on their tenth empty result in a row, one of
\* them after it had processed an id
C27_Witness ==
  /\ \A w \in Workers : pc[w] = "stopped" /\ emptyQueueCount[w] = maxEmptyChecks
  /\ \E w \in Workers : processedCount[w] > 0
  /\ queue = <<>>

\* the workers have found the queue empty maxEmptyChecks - 1 times in a row
\* before the coordinator enqueues its first batch
InitReset ==
  /\ InitStore /\ InitExtra /\ InitHistory
  /\ Initialized
  /\ cur = [p \in Procs |-> None]
  /\ batch = [p \in Procs |-> <<>>]
  /\ i = [p \in Procs |-> 0]
  /\ idx = [p \in Procs |-> 0]
  /\ newIds = [p \in Procs |-> <<>>]
  /\ addedCount = [p \in Procs |-> 0]
  /\ failedIds = [p \in Procs |-> {}]
  /\ todo = [p \in Procs |-> {}]
  /\ ret = [p \in Procs |-> None]
  /\ count = [p \in Procs |-> -1]
  /\ emptyQueueCount = [p \in Procs |-> IF p \in Workers THEN maxEmptyChecks - 1 ELSE 0]
  /\ pc = [p \in Procs |-> Home(p)]
  /\ budget = [p \in Procs |-> IF p = Coordinator THEN MaxOps ELSE 0]
  /\ limit = maxRetries

SpecReset == InitReset /\ [][NextPoll]_vars

\* C28: a popListingId that returns an id sets emptyQueueCount to 0, and the
\* count is 0 all through the processing of the id; the count changes in no
\* other step but an empty result, which adds one to it; the worker leaves
\* the loop only on the empty result that makes the count maxEmptyChecks;
\* the count never exceeds maxEmptyChecks
C28_IdleExitOnlyAfterEmptyRun ==
  /\ [][\A w \in Workers :
          /\ (pc[w] = "pop" /\ pc'[w] = "isProcessed") =>
               /\ cur'[w] \in Ids
               /\ emptyQueueCount'[w] = 0
          /\ (emptyQueueCount'[w] # emptyQueueCount[w]) =>
               /\ pc[w] = "pop"
               /\ IF pc'[w] = "isProcessed"
                    THEN emptyQueueCount'[w] = 0
                    ELSE /\ queue = <<>> /\ cur'[w] = None
                         /\ emptyQueueCount'[w] = emptyQueueCount[w] + 1
          /\ (pc[w] # "stopped" /\ pc'[w] = "stopped") =>
               /\ pc[w] = "pop" /\ queue = <<>>
               /\ emptyQueueCount'[w] = maxEmptyChecks]_vars
  /\ [](\A w \in Workers :
          /\ emptyQueueCount[w] <= maxEmptyChecks
          /\ pc[w] \notin {"pop", "stopped"} => emptyQueueCount[w] = 0)

\* a worker that had found the queue empty nine times dequeues its first id
\* with the count back at 0, while the other worker has left the loop
C28_Witness ==
  \E w, v \in Workers :
    /\ pc[w] = "isProcessed" /\ cur[w] \in Ids
    /\ emptyQueueCount[w] = 0
    /\ processedCount[w] = 0 /\ failedCount[w] = 0
    /\ \A id \in Ids : rqCalls[id] = 0
    /\ pc[v] = "stopped" /\ emptyQueueCount[v] = maxEmptyChecks

\* C29: when the processing of a dequeued id throws, the catch block starts
\* requeueWithRetry(id, maxRetries) for that id, the call finishes once, the
\* worker is back at its next dequeue, and at that moment the id is in queue,
\* in failed or in processed; a worker leaves the loop on an empty queue
\* only
C29_ThrowLeadsToAckFailure ==
  /\ [][\A w \in Workers :
          /\ (pc[w] = "search" /\ pc'[w] # "search") =>
               /\ pc'[w] \in {"markProcessed", "catch"}
               /\ cur'[w] = cur[w]
          /\ (pc[w] = "catch" /\ pc'[w] # "catch") =>
               /\ cur'[w] = cur[w]
               /\ retries'[cur[w]] = retries[cur[w]] + 1
               /\ pc'[w] = (IF retries'[cur[w]] <= maxRetries THEN "rq_lpush" ELSE "rq_sadd")
          /\ (pc[w] = "rq_sadd" /\ pc'[w] # "rq_sadd") =>
               /\ pc'[w] = "rq_hset" /\ cur'[w] = cur[w]
               /\ cur[w] \in failed'
          /\ (pc[w] \in {"rq_lpush", "rq_hset"} /\ pc'[w] # pc[w]) =>
               /\ pc'[w] = "pop"
               /\ rqCalls'[cur[w]] = rqCalls[cur[w]] + 1
               /\ cur[w] \in Range(queue') \cup failed' \cup processed'
               /\ failedCount'[w] = failedCount[w] + (IF pc[w] = "rq_hset" THEN 1 ELSE 0)]_vars
  /\ [](\A w \in Workers : pc[w] = "stopped" => emptyQueueCount[w] = maxEmptyChecks)

\* C30: when isProcessed finds the dequeued id in processed, processProperty
\* returns at once: the worker is at its next dequeue without a search and
\* without markProcessed, and queue, all_ids, processed, failed, the error
\* records, retries and the counters of the workers are as they were
C30_SkipsProcessedId ==
  [][\A w \in Workers :
       (pc[w] = "isProcessed" /\ cur[w] \in processed /\ pc'[w] # "isProcessed") =>
         /\ pc'[w] = "pop"
         /\ UNCHANGED <<queue, all_ids, processed, failed, failedErrors, retries>>
         /\ UNCHANGED <<processedCount, failedCount, sent, ackCalls, rqCalls>>]_vars

\* a worker that has processed an id has dequeued the same id again, put
\* back by retryFailedListings, and processProperty is at its isProcessed
\* check
C30_Witness ==
  \E w \in Workers :
    /\ pc[w] = "isProcessed"
    /\ cur[w] \in processed
    /\ processedCount[w] = 1

\* ===================================================== scrapeSearch
\* the arguments of the scrapeSearch calls that are examined, and what a
\* page of the API can hold
MaxMaxResults == 4
MaxPageSize == 2
MaxPageLen == 3
MaxTotalPages == 3

\* Math.ceil(maxResults / this.options.pageSize)
MaxPages(maxResults, pageSize) == (maxResults + pageSize - 1) \div pageSize

\* what parseSearchResponse returns for one page: the parsed properties (by
\* their ids) and totalPages, which is 1 when the API gives no page count
SearchResults ==
  [properties : UNION {[1..n -> Ids] : n \in 0..MaxPageLen},
   totalPages : 1..MaxTotalPages]

\* while (hasMore && page <= maxPages && properties.length < maxResults)
LoopCondition(sc) ==
  /\ sc.hasMore
  /\ sc.page <= MaxPages(sc.maxResults, sc.pageSize)
  /\ Len(sc.properties) < sc.maxResults

\* for (const property of searchResult.properties): an id not seen before
\* is appended as long as there are fewer than maxResults properties
RECURSIVE Collect(_, _, _)
Collect(properties, page, maxResults) ==
  IF page = <<>> THEN properties
  ELSE Collect(IF Head(page) \notin Range(properties) /\ Len(properties) < maxResults
                 THEN Append(properties, Head(page)) ELSE properties,
               Tail(page), maxResults)

\* the frame of a step of scrapeSearch, which sends no command to the store
ScrapeOnly ==
  /\ UNCHANGED <<store, locals, history, known, ackCalls, arrival, stats>>
  /\ UNCHANGED <<qstats, sent, reachable, storeErrors, signing, counters, chunking, encoder>>

\* discoverProperties is called for the next combination and calls
\* scrapeSearch, which catches whatever a page request throws: no failure of
\* a request reaches the catch block of discoverProperties
ScrapeSearch(p) ==
  /\ p = "c1"
  /\ pc[p] = "idle"
  /\ discovery.phase = "scrape"
  /\ discovery.k < NumCombinations
  /\ scraper.phase = "idle"
  /\ discovery' = [discovery EXCEPT !.invoked = @ \cup {discovery.k + 1}]
  /\ scraper' = [NoScrape(scraper.maxResults, scraper.pageSize) EXCEPT !.phase = "loop"]
  /\ ScrapeOnly

\* faulty variant: the page number is not advanced
ScrapeSearch_page_SamePage(p) ==
  /\ p = "c1"
  /\ scraper.phase = "loop"
  /\ LoopCondition(scraper)
  /\ \E searchResult \in SearchResults :
       scraper' = [scraper EXCEPT
         !.properties = Collect(@, searchResult.properties, scraper.maxResults),
         !.hasMore = scraper.page < searchResult.totalPages
                     /\ Len(searchResult.properties) > 0,
         !.requested = Append(@, scraper.page),
         !.seen = @ \cup Range(searchResult.properties),
         !.honoured = @ /\ Len(searchResult.properties) <= scraper.pageSize,
         !.last = [n |-> Len(searchResult.properties),
                   totalPages |-> searchResult.totalPages]]
  /\ UNCHANGED discovery
  /\ ScrapeOnly

\* faulty variant: the properties of a page are appended as they come
ScrapeSearch_page_NoDedup(p) ==
  /\ p = "c1"
  /\ scraper.phase = "loop"
  /\ LoopCondition(scraper)
  /\ \E searchResult \in SearchResults :
       scraper' = [scraper EXCEPT
         !.properties = @ \o searchResult.properties,
         !.hasMore = scraper.page < searchResult.totalPages
                     /\ Len(searchResult.properties) > 0,
         !.page = @ + 1,
         !.requested = Append(@, scraper.page),
         !.seen = @ \cup Range(searchResult.properties),
         !.honoured = @ /\ Len(searchResult.properties) <= scraper.pageSize,
         !.last = [n |-> Len(searchResult.properties),
                   totalPages |-> searchResult.totalPages]]
  /\ UNCHANGED discovery
  /\ ScrapeOnly

\* one pass of the loop in which this.search returns
ScrapeSearch_page(p) ==
  /\ p = "c1"
  /\ scraper.phase = "loop"
  /\ LoopCondition(scraper)
  /\ \E searchResult \in SearchResults :
       scraper' = [scraper EXCEPT
         !.properties = Collect(@, searchResult.properties, scraper.maxResults),
         !.hasMore = scraper.page < searchResult.totalPages
                     /\ Len(searchResult.properties) > 0,
         !.page = @ + 1,
         !.requested = Append(@, scraper.page),
         !.seen = @ \cup Range(searchResult.properties),
         !.honoured = @ /\ Len(searchResult.properties) <= scraper.pageSize,
         !.last = [n |-> Len(searchResult.properties),
                   totalPages |-> searchResult.totalPages]]
  /\ UNCHANGED discovery
  /\ ScrapeOnly

\* faulty variant: the error is thrown on to discoverProperties, whose catch
\* block returns 0
ScrapeSearch_pageThrows_Rethrows(p) ==
  /\ p = "c1"
  /\ scraper.phase = "loop"
  /\ LoopCondition(scraper)
  /\ scraper' = [scraper EXCEPT !.requested = Append(@, scraper.page),
                                !.threw = TRUE,
                                !.phase = "idle"]
  /\ discovery' = [discovery EXCEPT !.k = @ + 1]
  /\ ScrapeOnly

\* one pass of the loop in which this.search throws: the catch block logs
\* and breaks
ScrapeSearch_pageThrows(p) ==
  /\ p = "c1"
  /\ scraper.phase = "loop"
  /\ LoopCondition(scraper)
  /\ scraper' = [scraper EXCEPT !.requested = Append(@, scraper.page),
                                !.threw = TRUE,
                                !.phase = "break"]
  /\ UNCHANGED discovery
  /\ ScrapeOnly

\* scrapeSearch returns properties; discoverProperties maps them to their
\* ids and calls pushListingIds(ids)
ScrapeSearch_return(p) ==
  /\ p = "c1"
  /\ \/ scraper.phase = "break"
     \/ scraper.phase = "loop" /\ ~LoopCondition(scraper)
  /\ scraper' = [scraper EXCEPT !.phase = "idle"]
  /\ discovery' = [discovery EXCEPT !.phase = "push"]
  /\ ret' = [ret EXCEPT ![p] = None]
  /\ IF scraper.properties = <<>>
       THEN /\ count' = [count EXCEPT ![p] = 0]
            /\ UNCHANGED <<pc, batch>>
       ELSE /\ count' = [count EXCEPT ![p] = -1]
            /\ pc' = [pc EXCEPT ![p] = "plis_sadd"]
            /\ batch' = [batch EXCEPT ![p] = scraper.properties]
  /\ known' = [known EXCEPT ![p] = all_ids]
  /\ UNCHANGED <<store, cur, i, idx, newIds, addedCount, todo,
                 failedIds, budget, emptyQueueCount, limit, history>>
  /\ UNCHANGED <<ackCalls, arrival, stats>>
  /\ UNCHANGED <<qstats, sent, reachable, storeErrors, signing, counters, chunking, encoder>>

\* the scraper of the examined calls: any small page size and result limit
InitScrape ==
  /\ InitStore /\ InitProcLocals /\ InitHistory
  /\ InitQueueExtra /\ InitSigning /\ InitCounters
  /\ Initialized
  /\ pc = [p \in Procs |-> Home(p)]
  /\ budget = [p \in Procs |-> 0]
  /\ limit = maxRetries
  /\ \E maxResults \in 1..MaxMaxResults, pageSize \in 1..MaxPageSize :
       scraper = NoScrape(maxResults, pageSize)
  /\ chunking = WholeLists
  /\ encoder = NoInput

\* the discovery pass of the coordinator with the paging of scrapeSearch:
\* every request returns or fails (axios timeout: 30000), every command of
\* the store is answered
NextScrape ==
  \/ ScrapeSearch(Coordinator)
  \/ ScrapeSearch_page(Coordinator)
  \/ ScrapeSearch_pageThrows(Coordinator)
  \/ ScrapeSearch_return(Coordinator)
  \/ PushListingIds_sadd(Coordinator)
  \/ PushListingIds_lpush(Coordinator)
  \/ DiscoverProperties_return(Coordinator)
  \/ DiscoverAllCities_done(Coordinator)

SpecScrape == InitScrape /\ [][NextScrape]_vars /\ WF_vars(NextScrape)

\* scrapeSearch returns to discoverProperties in this step
Returns == scraper.phase # "idle" /\ scraper'.phase = "idle"

\* the call has the shape of the coordinator's: the result limit is a whole
\* number of pages (10000 = 500 * 20), and no page of the API held more
\* entries than the pagesize asked for
CoordinatorLike(sc) == sc.maxResults % sc.pageSize = 0 /\ sc.honoured

C39_PageFailureKeepsEarlierPages ==
  /\ [][(~scraper.threw /\ scraper'.threw) =>
          /\ scraper'.phase = "break"
          /\ scraper'.properties = scraper.properties
          /\ UNCHANGED discovery]_vars
  /\ [][(scraper.threw /\ scraper'.threw) =>
          scraper'.requested = scraper.requested]_vars
  /\ [][(Returns /\ scraper'.threw) =>
          /\ discovery'.phase = "push"
          /\ discovery'.k = discovery.k
          /\ scraper.properties # <<>> =>
               /\ pc'[Coordinator] = "plis_sadd"
               /\ batch'[Coordinator] = scraper.properties]_vars
  /\ [][(scraper.threw /\ discovery'.k # discovery.k) =>
          /\ Range(scraper.properties) \subseteq all_ids
          /\ Range(scraper.properties) \subseteq Range(queue)
          /\ discovery'.totalNewIds = discovery.totalNewIds + count[Coordinator]]_vars
  /\ (scraper.phase = "break") ~> (discovery.phase = "push" /\ pc[Coordinator] = "idle")

\* the second page request of a combination failed; the ids of its first
\* page were enqueued and counted
C39_Witness ==
  /\ scraper.threw
  /\ scraper.requested = <<1, 2>>
  /\ scraper.properties # <<>>
  /\ discovery.phase = "push"
  /\ pc[Coordinator] = "idle"
  /\ count[Coordinator] = Len(scraper.properties)
  /\ Range(scraper.properties) \subseteq Range(queue)

\* C40: scrapeSearch terminates, whatever the API reports: it requests at
\* most ceil(maxResults / pageSize) pages, and the list it builds never has
\* a repeated id or more than maxResults entries.
C40_ScrapeSearchBounded ==
  /\ [](Len(scraper.requested) <= MaxPages(scraper.maxResults, scraper.pageSize))
  /\ [](Len(scraper.properties) <= scraper.maxResults)
  /\ [](Cardinality(Range(scraper.properties)) = Len(scraper.properties))
  /\ (scraper.phase = "loop") ~> (scraper.phase = "idle")

\* a call has returned at its limit of results although the API reported
\* further pages and returned pages that were fuller than asked for, with
\* an id repeated
C40_Witness ==
  /\ scraper.phase = "idle"
  /\ scraper.requested # <<>>
  /\ ~scraper.honoured
  /\ scraper.hasMore
  /\ Len(scraper.properties) = scraper.maxResults
  /\ Cardinality(scraper.seen) > scraper.maxResults

\* ============================================== pushListingIds in chunks
\* the lists and chunk sizes of the pushListingIds calls that are examined
MaxIdsLen == 4
MaxBatchSize == 3

\* the replies of one pipeline of SADD commands, as the filter reads them:
\* the ids of the list that were not members when their command ran
RECURSIVE Pipeline(_, _)
Pipeline(ids, members) ==
  IF ids = <<>> THEN <<>>
  ELSE IF Head(ids) \in members
         THEN Pipeline(Tail(ids), members)
         ELSE <<Head(ids)>> \o Pipeline(Tail(ids), members \cup {Head(ids)})

\* pushListingIds on a list that fits into one chunk: one pipeline, then
\* one LPUSH when an id was new
SingleChunk(ids, members, q) ==
  [count |-> Len(Pipeline(ids, members)),
   all |-> members \cup Range(ids),
   queue |-> IF Pipeline(ids, members) = <<>> THEN q
             ELSE LPushAll(q, Pipeline(ids, members))]

\* the queues a namespace with the members all can hold: ids of all that
\* were pushed once and not yet taken
QueuesOf(members) ==
  {q \in UNION {[1..n -> members] : n \in 0..Cardinality(members)} :
     \A m, n \in 1..Len(q) : q[m] = q[n] => m = n}

\* the coordinator has called pushListingIds with a list of ids, and no
\* other process uses the namespace; the chunks have any small size
InitChunk ==
  /\ Initialized
  /\ InitQueueExtra /\ InitSigning /\ InitCounters
  /\ scraper = NoScrape(CoordinatorMaxResults, CoordinatorPageSize)
  /\ cur = [p \in Procs |-> None]
  /\ i = [p \in Procs |-> 0]
  /\ idx = [p \in Procs |-> 0]
  /\ newIds = [p \in Procs |-> <<>>]
  /\ addedCount = [p \in Procs |-> 0]
  /\ failedIds = [p \in Procs |-> {}]
  /\ todo = [p \in Procs |-> {}]
  /\ ret = [p \in Procs |-> None]
  /\ count = [p \in Procs |-> -1]
  /\ emptyQueueCount = [p \in Procs |-> 0]
  /\ rqCalls = [id \in Ids |-> 0]
  /\ rqTrue = [id \in Ids |-> 0]
  /\ ackCalls = [id \in Ids |-> 0]
  /\ \E members \in SUBSET Ids :
       /\ all_ids = members
       /\ newCount = [id \in Ids |-> IF id \in members THEN 1 ELSE 0]
       /\ pushCount = [id \in Ids |-> IF id \in members THEN 1 ELSE 0]
       /\ \E q \in QueuesOf(members) :
            /\ queue = q
            /\ arrival = [n \in 1..Len(q) |-> q[Len(q) + 1 - n]]
            /\ \E size \in 1..MaxBatchSize :
                 chunking = [batchSize |-> size, all0 |-> members, queue0 |-> q]
       /\ known = [p \in Procs |-> IF p = Coordinator THEN members ELSE {}]
  /\ encoder = NoInput
  /\ processed = {} /\ failed = {} /\ failedErrors = {}
  /\ retries = [id \in Ids |-> 0]
  /\ \E ids \in UNION {[1..n -> Ids] : n \in 1..MaxIdsLen} :
       batch = [p \in Procs |-> IF p = Coordinator THEN ids ELSE <<>>]
  /\ pc = [p \in Procs |-> IF p = Coordinator THEN "plis_sadd" ELSE Home(p)]
  /\ budget = [p \in Procs |-> 0]
  /\ limit = maxRetries

NextChunk ==
  \/ PushListingIds_sadd(Coordinator)
  \/ PushListingIds_lpush(Coordinator)

SpecChunk == InitChunk /\ [][NextChunk]_vars

\* C32: the ids are handled in consecutive chunks of at most batchSize, and
\* when pushListingIds returns, its count, the set all and the queue are
\* what one chunk holding the whole list gives.
C32_ChunkingIsTransparent ==
  /\ [](pc[Coordinator] \in {"plis_sadd", "plis_lpush"} =>
          /\ i[Coordinator] % chunking.batchSize = 0
          /\ Len(Chunk(Coordinator)) \in 1..chunking.batchSize
          /\ MoreChunks(Coordinator) => Len(Chunk(Coordinator)) = chunking.batchSize)
  /\ [][(pc[Coordinator] \in {"plis_sadd", "plis_lpush"} /\ pc'[Coordinator] = "idle") =>
          LET whole == SingleChunk(batch[Coordinator], chunking.all0, chunking.queue0)
          IN /\ count'[Coordinator] = whole.count
             /\ all_ids' = whole.all
             /\ queue' = whole.queue]_vars

\* the second chunk of a list is being pushed after the first chunk has
\* pushed an id, and an id of the second chunk was left out as known
C32_Witness ==
  /\ pc[Coordinator] = "plis_lpush"
  /\ i[Coordinator] > 0
  /\ addedCount[Coordinator] > 0
  /\ Len(newIds[Coordinator]) < Len(Chunk(Coordinator))

C34_AllAndProcessedGrow ==
  [][\/ all_ids \subseteq all_ids' /\ processed \subseteq processed'
     \/ Clear(Operator)]_vars

\* an id that had failed for good was moved back by retryFailedListings and
\* then processed, with every id discovered and still known
C34_Witness ==
  /\ pc[Operator] = "idle"
  /\ count[Operator] = 1
  /\ all_ids = Ids
  /\ \E id \in Ids : id \in failedErrors /\ id \in processed

\* C37: with ids entering through pushListingIds only and the workers
\* running popListingId, markProcessed and requeueWithRetry, no operator and
\* no crash: for every id, its entries in queue and the workers holding it
\* in flight are together at most one.
C37_SingleCopy ==
  \A id \in Ids :
    Occurrences(queue, id)
      + Cardinality({w \in Workers : InFlight(w) /\ cur[w] = id}) <= 1

\* a worker is about to requeue an id for the second time while the
\* coordinator is enqueuing a list that holds the same id, and the other
\* id waits in queue
C37_Witness ==
  \E w \in Workers :
    /\ pc[w] = "rq_lpush"
    /\ retries[cur[w]] = 2
    /\ pc[Coordinator] = "plis_sadd"
    /\ cur[w] \in Range(batch[Coordinator])
    /\ \E id \in Ids \ {cur[w]} : id \in Range(queue)

\* C38: every member of processed and every member of failed is a member
\* of all, in every state of the coordinator enqueuing, the workers running
\* their loops and an operator issuing retryFailedListings or clear.
C38_ProcessedAndFailedAreKnown ==
  /\ processed \subseteq all_ids
  /\ failed \subseteq all_ids

\* ================================== percentEncode and the order of the keys
\* the printable ASCII characters in the order of their codes, from the
\* space (32) on; the backslash and the backtick are written as words
Ascii ==
  <<" ", "!", "\"", "#", "$", "%", "&", "'", "(", ")", "*", "+", ",", "-", ".", "/",
    "0", "1", "2", "3", "4", "5", "6", "7", "8", "9", ":", ";", "<", "=", ">", "?",
    "@", "A", "B", "C", "D", "E", "F", "G", "H", "I", "J", "K", "L", "M", "N", "O",
    "P", "Q", "R", "S", "T", "U", "V", "W", "X", "Y", "Z", "[", "backslash", "]", "^", "_",
    "backtick", "a", "b", "c", "d", "e", "f", "g", "h", "i", "j", "k", "l", "m", "n", "o",
    "p", "q", "r", "s", "t", "u", "v", "w", "x", "y", "z", "{", "|", "}", "~">>

\* the UTF-16 code unit of a character
Code(c) == 31 + CHOOSE n \in 1..Len(Ascii) : Ascii[n] = c

\* the default comparison of Array.prototype.sort: strings are compared
\* code unit by code unit, and a proper prefix comes first
RECURSIVE Less(_, _)
Less(s, t) ==
  IF t = <<>> THEN FALSE
  ELSE IF s = <<>> THEN TRUE
  ELSE IF Head(s) = Head(t) THEN Less(Tail(s), Tail(t))
  ELSE Code(Head(s)) < Code(Head(t))

\* the strings of a set in ascending order
RECURSIVE Sort(_)
Sort(S) ==
  IF S = {} THEN <<>>
  ELSE LET least == CHOOSE s \in S : \A t \in S \ {s} : Less(s, t)
       IN <<least>> \o Sort(S \ {least})

\* the keys of oauthParams, character by character
AuthKeys ==
  {<<"o", "a", "u", "t", "h", "_", "c", "o", "n", "s", "u", "m", "e", "r", "_", "k", "e", "y">>,
   <<"o", "a", "u", "t", "h", "_", "t", "o", "k", "e", "n">>,
   <<"o", "a", "u", "t", "h", "_", "s", "i", "g", "n", "a", "t", "u", "r", "e", "_", "m", "e", "t", "h", "o", "d">>,
   <<"o", "a", "u", "t", "h", "_", "t", "i", "m", "e", "s", "t", "a", "m", "p">>,
   <<"o", "a", "u", "t", "h", "_", "n", "o", "n", "c", "e">>,
   <<"o", "a", "u", "t", "h", "_", "v", "e", "r", "s", "i", "o", "n">>}

\* Object.keys(allParams).sort().map(key => percentEncode(key)): the keys of
\* the merged parameters as they follow each other in sortedParams
EncodedKeys(keys) ==
  LET sorted == Sort(AuthKeys \cup keys)
  IN [k \in 1..Len(sorted) |-> percentEncode(sorted[k])]

\* the strings that are examined: their characters and lengths
MaxStrLen == 3
MaxKeyLen == 2
StrAlphabet ==
  {"a", "Z", "1", "-", "_", ".", "~"} \cup {"!", "'", "(", ")", "*"} \cup {" ", ":", "%"}
KeyAlphabet == {"a", "1", "~", ":", "*"}
Strings == UNION {[1..n -> StrAlphabet] : n \in 0..MaxStrLen}
KeyStrings == UNION {[1..n -> KeyAlphabet] : n \in 1..MaxKeyLen}
\* params objects with no key, one key or two keys
KeySets == {{}} \cup {{k, l} : k, l \in KeyStrings}

\* a key or value is given to percentEncode
PercentEncode ==
  /\ encoder.kind = "str"
  /\ ~encoder.done
  /\ encoder' = [encoder EXCEPT !.done = TRUE, !.out = percentEncode(encoder.str)]
  /\ UNCHANGED <<store, locals, history, known, ackCalls, arrival, stats>>
  /\ UNCHANGED <<qstats, sent, discovery, reachable, storeErrors, signing, counters,
                 scraper, chunking>>

\* generateAuthHeader sorts the keys of the merged parameters and encodes them
SortKeys ==
  /\ encoder.kind = "keys"
  /\ ~encoder.done
  /\ encoder' = [encoder EXCEPT !.done = TRUE, !.out = EncodedKeys(encoder.keys)]
  /\ UNCHANGED <<store, locals, history, known, ackCalls, arrival, stats>>
  /\ UNCHANGED <<qstats, sent, discovery, reachable, storeErrors, signing, counters,
                 scraper, chunking>>

\* a string for percentEncode, or the keys of a params object for the sort
InitEncode ==
  /\ InitStore /\ InitProcLocals /\ InitHistory /\ Initialized
  /\ InitQueueExtra /\ InitSigning /\ InitCounters
  /\ scraper = NoScrape(CoordinatorMaxResults, CoordinatorPageSize)
  /\ chunking = WholeLists
  /\ pc = [p \in Procs |-> Home(p)]
  /\ budget = [p \in Procs |-> 0]
  /\ limit = maxRetries
  /\ \/ \E str \in Strings :
          encoder = [kind |-> "str", done |-> FALSE, str |-> str, keys |-> {}, out |-> <<>>]
     \/ \E keys \in KeySets :
          encoder = [kind |-> "keys", done |-> FALSE, str |-> <<>>, keys |-> keys, out |-> <<>>]

NextEncode == PercentEncode \/ SortKeys

SpecEncode == InitEncode /\ [][NextEncode]_vars

Unreserved == {"a", "Z", "1", "-", "_", ".", "~"}

Escape(c) ==
  CASE c = "!" -> <<"%", "2", "1">> [] c = "'" -> <<"%", "2", "7">>
    [] c = "(" -> <<"%", "2", "8">> [] c = ")" -> <<"%", "2", "9">>
    [] c = "*" -> <<"%", "2", "A">> [] c = " " -> <<"%", "2", "0">>
    [] c \in Unreserved -> <<c>>
    [] OTHER -> <<"%">> \o Hex(c)

\* C36: percentEncode turns ! ' ( ) * into %21 %27 %28 %29 %2A and a space
\* into %20, leaves letters, digits and - _ . ~ as they are, and none of the
\* five characters is left in its output, for every key and value.
C36_PercentEncodeEscapes ==
  /\ (encoder.kind = "str" /\ encoder.done) =>
        /\ encoder.out = Join([k \in 1..Len(encoder.str) |-> Escape(encoder.str[k])], <<>>)
        /\ Range(encoder.out) \cap {"!", "'", "(", ")", "*"} = {}
  /\ (encoder.kind = "keys" /\ encoder.done) =>
        \A k \in 1..Len(encoder.out) :
          Range(encoder.out[k]) \cap {"!", "'", "(", ")", "*"} = {}

\* a string with an asterisk, a space and a tilde has been encoded
C36_Witness ==
  /\ encoder.kind = "str"
  /\ encoder.done
  /\ encoder.str = <<"*", " ", "~">>
  /\ encoder.out = <<"%", "2", "A", "%", "2", "0", "~">>

====
